---- MODULE Spec2Model ----
(***************************************************************************)
(* A model of crossdeployqt (src/src/cdqt): the reference resolver, the    *)
(* deployment filter, the dependency traversals, the stagers and the       *)
(* relocatable patchers.  Strings of the program are TLA+ strings, read    *)
(* character by character with SubSeq; byte buffers are sequences of       *)
(* 0..255.                                                                 *)
(***************************************************************************)
EXTENDS Integers, Sequences, FiniteSets, TLC

VARIABLES
    fType, fPath, fQt, fBinary,      \* shouldDeployLibrary: the library, the platform, the context
    fDone, fResult                   \* whether it has been called, and its verdict

VARIABLES
    rType, rFiles,                   \* resolveRef: the platform, the regular files that exist
    rSubject, rMain,                 \* the subject being resolved, the original input binary
    rRef, rRpaths, rSearchDirs,      \* the reference, the subject's rpaths, ctx.searchDirs
    rDone, rFound                    \* whether it has been called, and what it returned

VARIABLES
    pInput, pFile,                   \* patchQtCoreDllPrefixInfixPE: the file at qtCorePath when called, and now
    pBuf,                            \* the buffer the file was read into, as patched
    pDone, pReturned                 \* whether it has been called, and what it returned

VARIABLES
    sOut,                            \* the output tree: path below plan.outputRoot -> what is there
    sLibs,                           \* the libraries resolveAndRecurse returned, in its order
    sSymlinks,                       \* whether the output file system lets create_symlink succeed
    sPlugins, sCatalogs,             \* whether Qt has a platform plugin, and translation catalogs
    sNow,                            \* the clock that stamps last_write_time
    sPc, sRun,                       \* the next step of deploy(plan), and which run this is
    sAfterFirst                      \* the output tree as the first run left it

VARIABLES
    tKind,                           \* which traversal: "main" (resolveAndRecurse) or "qml"
    tFiles, tParse,                  \* the files that exist, and what parseDepsCached reports per binary
    tStack, tVisited, tResult,       \* the locals stack, visited and result of the traversal
    tPc,                             \* "start", "loop", "done", or "failed" once it has thrown
    tError, tExit,                   \* the exception's message, and the process exit code (-1: running)
    tLibs,                           \* the libraries returned, resp. handed to the stager
    tCount                           \* history: how often each path's references have been walked

VARIABLES
    mBin,                            \* the Mach-O files that exist: path -> its id, load commands and rpaths
    mWritable,                       \* the files that have the owner-write permission bit
    mLibs,                           \* the libraries resolveAndRecurse returned, in its order
    mPc,                             \* the next step of deployMachO(plan); "hang" once a step cannot end
    mExamined                        \* history: per subject of the change pass, its dependency entries and those examined

VARIABLES
    dType, dBinary,                  \* plan.type and plan.binaryPath of a deployment run
    dQt,                             \* what queryQtPaths() returns
    dMissingQt, dQmlLibs,            \* whether the closure lacks a Qt library; whether QML plugin libraries get staged
    dLibs,                           \* the file names of the libraries resolveAndRecurse returns
    dEnv, dEnv0,                     \* the process environment, and as it was when the run began
    dSearchDirs,                     \* ctx.searchDirs of the context built last
    dPc,                             \* the position in deploy(plan): the index of the next step, 0 once it has thrown
    dSteps,                          \* history: the steps run so far
    dPatched,                        \* history: whether patchQtCoreDllPrefixInfixPE has been called
    dQmlDeps,                        \* the libraries the closure of the QML plugins comes to (PE)
    dRoot                            \* the library files of the output root (PE)

VARIABLES
    oOut, oStaged,                   \* the output tree, and as it was before applyOverlays
    oOverlays,                       \* plan.overlays: the tree of each overlay directory, in order
    oNow,                            \* the clock that stamps last_write_time
    oPc                              \* "staged" before applyOverlays, "merged" after

VARIABLES
    cType,                           \* plan.type of the run
    cParseByPath, cRpathsByPath,     \* the ParseCache of the traversal pass: key -> record
    cRuns,                           \* history: how often each tool has run on each file in this pass
    cAliases,                        \* history: the subject paths requested in this pass
    cReturned,                       \* what the last request returned
    cPass, cRequests                 \* which pass of the run this is, and the requests made so far

VARIABLES
    aArgv,                           \* argv[1..argc-1] of the process
    aFile,                           \* what is at the path given as --bin
    aDeployThrows,                   \* whether a deployment step throws a std::exception
    aHost,                           \* the programs on PATH, QTPATHS_BIN and whether the file it names exists
    aOutTouched,                     \* whether anything has been created below plan.outputRoot
    aArgs, aUsage,                   \* what parseArgs returned, and whether usage was printed
    aType, aWhyNot,                  \* what detectBinaryType returned, and detectFail
    aPc,                             \* the position in main: "parseArgs", "checkBinary", "detect", "deploy", "exited"
    aExit                            \* the value main has returned (-1: running)

VARIABLES
    lType, lLanguages,               \* plan.type and plan.languages of a run of deployTranslations
    lEnv,                            \* LC_ALL and LANG of the process
    lQtTranslations,                 \* ctx.qt.qtInstallTranslations: whether it is known, and the catalogs in it
    lOut,                            \* the output tree below the translations directory
    lNow,                            \* the clock that stamps last_write_time
    lPc, lRun,                       \* "ready" before deployTranslations, "done" after; which run this is
    lTried                           \* history: the languages handed to lconvert in this run, and what it did

VARIABLES
    kFs, kBefore,                    \* copyFileOverwrite: the tree below the output root, now and when called
    kFrom, kTo,                      \* the source file and the destination path
    kNow,                            \* the clock that stamps last_write_time
    kDone, kReturned                 \* whether it has been called, and what it returned

VARIABLES
    gQtPlugins,                      \* copyPluginsPE: ctx.qt.qtInstallPlugins
    gEnv,                            \* MINGW_QT_PLUGINS and PATH of the process
    gLibs,                           \* resolvedLibs, in the order of resolveAndRecurse
    gFiles,                          \* the regular files of the build machine
    gOut,                            \* the output tree below plan.outputRoot / "plugins"
    gPc                              \* "ready" before copyPluginsPE, "done" after

VARIABLES
    qType,                           \* copyQmlModules: plan.type
    qSrc,                            \* the files below the QML import paths: path -> regular file or link
    qModules,                        \* what runQmlImportScanner returned, sorted by sourcePath
    qSymlinks,                       \* whether the output file system lets create_symlink succeed
    qOut,                            \* the output tree below plan.outputRoot
    qPc                              \* "ready" before copyQmlModules, "done" after

filterVars == <<fType, fPath, fQt, fBinary, fDone, fResult>>
resolveVars == <<rType, rFiles, rSubject, rMain, rRef, rRpaths, rSearchDirs, rDone, rFound>>
patchVars == <<pInput, pFile, pBuf, pDone, pReturned>>
stageVars == <<sOut, sLibs, sSymlinks, sPlugins, sCatalogs, sNow, sPc, sRun, sAfterFirst>>
closureVars == <<tKind, tFiles, tParse, tStack, tVisited, tResult, tPc, tError, tExit, tLibs, tCount>>
machoVars == <<mBin, mWritable, mLibs, mPc, mExamined>>
overlayVars == <<oOut, oStaged, oOverlays, oNow, oPc>>
cacheVars == <<cType, cParseByPath, cRpathsByPath, cRuns, cAliases, cReturned, cPass, cRequests>>
mainVars == <<aArgv, aFile, aDeployThrows, aHost, aOutTouched, aArgs, aUsage, aType, aWhyNot, aPc, aExit>>
deployVars == <<dType, dBinary, dQt, dMissingQt, dQmlLibs, dLibs, dEnv, dEnv0, dSearchDirs, dPc, dSteps, dPatched, dQmlDeps, dRoot>>
transVars == <<lType, lLanguages, lEnv, lQtTranslations, lOut, lNow, lPc, lRun, lTried>>
copyVars == <<kFs, kBefore, kFrom, kTo, kNow, kDone, kReturned>>
pluginVars == <<gQtPlugins, gEnv, gLibs, gFiles, gOut, gPc>>
qmlVars == <<qType, qSrc, qModules, qSymlinks, qOut, qPc>>
vars == <<filterVars, resolveVars, patchVars, stageVars, closureVars, machoVars, deployVars, overlayVars,
          cacheVars, mainVars, transVars, copyVars, pluginVars, qmlVars>>

\* std::nullopt of an optional path
Absent == ""

\* The parts of the state a run does not use stay as they are here.
IdleFilter ==
    /\ fType = "ELF" /\ fPath = "" /\ fQt = [qtInstallLibs |-> "", qtInstallBins |-> "", qtInstallPrefix |-> ""]
    /\ fBinary = "" /\ fDone = FALSE /\ fResult = FALSE

IdleResolve ==
    /\ rType = "ELF" /\ rFiles = {} /\ rSubject = "" /\ rMain = "" /\ rRef = ""
    /\ rRpaths = <<>> /\ rSearchDirs = <<>> /\ rDone = FALSE /\ rFound = Absent

IdlePatch ==
    /\ pInput = <<>> /\ pFile = <<>> /\ pBuf = <<>> /\ pDone = FALSE /\ pReturned = FALSE

IdleStage ==
    /\ sOut = <<>> /\ sLibs = <<>> /\ sSymlinks = FALSE /\ sPlugins = FALSE /\ sCatalogs = FALSE
    /\ sNow = 0 /\ sPc = "idle" /\ sRun = 0 /\ sAfterFirst = <<>>

IdleClosure ==
    /\ tKind = "main" /\ tFiles = {} /\ tParse = <<>> /\ tStack = <<>> /\ tVisited = {}
    /\ tResult = {} /\ tPc = "idle" /\ tError = "" /\ tExit = -1 /\ tLibs = {} /\ tCount = <<>>

IdleMachO ==
    /\ mBin = <<>> /\ mWritable = {} /\ mLibs = <<>> /\ mPc = "idle" /\ mExamined = <<>>

IdleDeploy ==
    /\ dType = "ELF" /\ dBinary = "" /\ dQt = <<>> /\ dMissingQt = FALSE /\ dQmlLibs = FALSE
    /\ dLibs = {} /\ dEnv = <<>> /\ dEnv0 = <<>> /\ dSearchDirs = <<>> /\ dPc = -1
    /\ dSteps = <<>> /\ dPatched = FALSE /\ dQmlDeps = {} /\ dRoot = <<>>

IdleOverlay ==
    /\ oOut = <<>> /\ oStaged = <<>> /\ oOverlays = <<>> /\ oNow = 0 /\ oPc = "idle"

IdleMain ==
    /\ aArgv = <<>> /\ aFile = <<>> /\ aDeployThrows = FALSE /\ aArgs = <<>> /\ aUsage = FALSE
    /\ aHost = <<>> /\ aOutTouched = FALSE
    /\ aType = "" /\ aWhyNot = "" /\ aPc = "idle" /\ aExit = -1

IdleCache ==
    /\ cType = "ELF" /\ cParseByPath = <<>> /\ cRpathsByPath = <<>> /\ cRuns = <<>>
    /\ cAliases = {} /\ cReturned = <<>> /\ cPass = 0 /\ cRequests = 0

IdleTrans ==
    /\ lType = "ELF" /\ lLanguages = <<>> /\ lEnv = <<>> /\ lQtTranslations = <<>> /\ lOut = <<>>
    /\ lNow = 0 /\ lPc = "idle" /\ lRun = 0 /\ lTried = <<>>

IdleCopy ==
    /\ kFs = <<>> /\ kBefore = <<>> /\ kFrom = <<>> /\ kTo = "" /\ kNow = 0
    /\ kDone = FALSE /\ kReturned = FALSE

IdlePlugins ==
    /\ gQtPlugins = "" /\ gEnv = <<>> /\ gLibs = <<>> /\ gFiles = {} /\ gOut = <<>> /\ gPc = "idle"

IdleQml ==
    /\ qType = "ELF" /\ qSrc = <<>> /\ qModules = <<>> /\ qSymlinks = FALSE /\ qOut = <<>> /\ qPc = "idle"

\* a run of one part of the program: the other parts are not called
IdleExcept(part) ==
    /\ IF part = "filter" THEN TRUE ELSE IdleFilter
    /\ IF part = "resolve" THEN TRUE ELSE IdleResolve
    /\ IF part = "patch" THEN TRUE ELSE IdlePatch
    /\ IF part = "stage" THEN TRUE ELSE IdleStage
    /\ IF part = "closure" THEN TRUE ELSE IdleClosure
    /\ IF part = "macho" THEN TRUE ELSE IdleMachO
    /\ IF part = "deploy" THEN TRUE ELSE IdleDeploy
    /\ IF part = "overlay" THEN TRUE ELSE IdleOverlay
    /\ IF part = "cache" THEN TRUE ELSE IdleCache
    /\ IF part = "main" THEN TRUE ELSE IdleMain
    /\ IF part = "qml" THEN TRUE ELSE IdleQml
    /\ IF part = "plugins" THEN TRUE ELSE IdlePlugins
    /\ IF part = "copy" THEN TRUE ELSE IdleCopy
    /\ IF part = "trans" THEN TRUE ELSE IdleTrans

UnchangedExcept(part) ==
    /\ IF part = "filter" THEN TRUE ELSE UNCHANGED filterVars
    /\ IF part = "resolve" THEN TRUE ELSE UNCHANGED resolveVars
    /\ IF part = "patch" THEN TRUE ELSE UNCHANGED patchVars
    /\ IF part = "stage" THEN TRUE ELSE UNCHANGED stageVars
    /\ IF part = "closure" THEN TRUE ELSE UNCHANGED closureVars
    /\ IF part = "macho" THEN TRUE ELSE UNCHANGED machoVars
    /\ IF part = "deploy" THEN TRUE ELSE UNCHANGED deployVars
    /\ IF part = "overlay" THEN TRUE ELSE UNCHANGED overlayVars
    /\ IF part = "cache" THEN TRUE ELSE UNCHANGED cacheVars
    /\ IF part = "main" THEN TRUE ELSE UNCHANGED mainVars
    /\ IF part = "qml" THEN TRUE ELSE UNCHANGED qmlVars
    /\ IF part = "plugins" THEN TRUE ELSE UNCHANGED pluginVars
    /\ IF part = "copy" THEN TRUE ELSE UNCHANGED copyVars
    /\ IF part = "trans" THEN TRUE ELSE UNCHANGED transVars

-----------------------------------------------------------------------------
(* std::string *)

Char(s, i) == SubSeq(s, i, i)

\* s.rfind(p, 0) == 0
StartsWith(s, p) == Len(s) >= Len(p) /\ SubSeq(s, 1, Len(p)) = p

\* s.find(pat, from): the first position >= from (1-based) where pat occurs, 0 for npos
Find(s, pat, from) ==
    LET hits == {i \in from..(Len(s) - Len(pat) + 1) : SubSeq(s, i, i + Len(pat) - 1) = pat}
    IN  IF hits = {} THEN 0 ELSE CHOOSE i \in hits : \A j \in hits : i <= j

Contains(s, pat) == Find(s, pat, 1) # 0

\* s.find_last_of('/') : 0 for npos
LastSlash(s) ==
    LET hits == {i \in 1..Len(s) : Char(s, i) = "/"}
    IN  IF hits = {} THEN 0 ELSE CHOOSE i \in hits : \A j \in hits : i >= j

UpperChars == "ABCDEFGHIJKLMNOPQRSTUVWXYZ"
LowerChars == "abcdefghijklmnopqrstuvwxyz"

\* std::tolower on one character
tolower(c) ==
    LET hits == {i \in 1..Len(UpperChars) : Char(UpperChars, i) = c}
    IN  IF hits = {} THEN c ELSE Char(LowerChars, CHOOSE i \in hits : TRUE)

\* std::transform(..., tolower)
RECURSIVE ToLower(_)
ToLower(s) == IF s = "" THEN "" ELSE tolower(Char(s, 1)) \o ToLower(SubSeq(s, 2, Len(s)))

-----------------------------------------------------------------------------
(* std::filesystem::path, lexical part *)

\* path::is_absolute (POSIX)
is_absolute(p) == StartsWith(p, "/")

\* path::filename
filename(p) == SubSeq(p, LastSlash(p) + 1, Len(p))

\* path::parent_path
parent_path(p) ==
    LET k == LastSlash(p)
    IN  IF k = 0 THEN "" ELSE IF k = 1 THEN "/" ELSE SubSeq(p, 1, k - 1)

\* operator/ : an absolute right-hand side replaces the left-hand side
PathJoin(p, q) ==
    IF is_absolute(q) \/ p = "" THEN q
    ELSE IF Char(p, Len(p)) = "/" THEN p \o q
    ELSE p \o "/" \o q

-----------------------------------------------------------------------------
(* std::filesystem against a tree without symbolic links.  A tree is the   *)
(* set of its regular files; its directories are the ancestors of its      *)
(* files and the directories of BaseDirs.                                  *)

\* the components of a path, "/" separated, empty ones dropped
RECURSIVE SplitFrom(_, _, _, _)
SplitFrom(s, i, cur, acc) ==
    IF i > Len(s) THEN (IF cur = "" THEN acc ELSE Append(acc, cur))
    ELSE IF Char(s, i) = "/" THEN SplitFrom(s, i + 1, "", IF cur = "" THEN acc ELSE Append(acc, cur))
    ELSE SplitFrom(s, i + 1, cur \o Char(s, i), acc)

Components(s) == SplitFrom(s, 1, "", <<>>)

\* fs::current_path()
Cwd == "/work"

BaseDirs == {"/", "/work", "/tmp"}

\* fs::is_directory
IsDirectory(p, files) == p \in BaseDirs \/ \E f \in files : StartsWith(f, p \o "/")

\* the path the kernel reaches by walking comps from the directory cur; "" when a
\* component is missing or a regular file is used as a directory
RECURSIVE Walk(_, _, _, _)
Walk(cur, comps, i, files) ==
    IF i > Len(comps) THEN cur
    ELSE IF cur \in files THEN ""
    ELSE IF comps[i] = "." THEN Walk(cur, comps, i + 1, files)
    ELSE IF comps[i] = ".." THEN Walk(parent_path(cur), comps, i + 1, files)
    ELSE LET nxt == PathJoin(cur, comps[i])
         IN  IF nxt \in files \/ IsDirectory(nxt, files) THEN Walk(nxt, comps, i + 1, files) ELSE ""

\* fs::canonical of an existing path, "" when it does not exist
Canonical(p, files) ==
    IF p = "" THEN "" ELSE Walk(IF is_absolute(p) THEN "/" ELSE Cwd, Components(p), 1, files)

\* fs::exists
Exists(p, files) == Canonical(p, files) # ""

\* path::lexically_normal on the components: "." dropped, "name/.." collapsed, "/.." is "/"
RECURSIVE NormalFrom(_, _, _, _)
NormalFrom(comps, i, acc, abs) ==
    IF i > Len(comps) THEN acc
    ELSE IF comps[i] = "." THEN NormalFrom(comps, i + 1, acc, abs)
    ELSE IF comps[i] = ".." THEN
        IF Len(acc) > 0 /\ acc[Len(acc)] # ".." THEN NormalFrom(comps, i + 1, SubSeq(acc, 1, Len(acc) - 1), abs)
        ELSE IF abs THEN NormalFrom(comps, i + 1, acc, abs)
        ELSE NormalFrom(comps, i + 1, Append(acc, ".."), abs)
    ELSE NormalFrom(comps, i + 1, Append(acc, comps[i]), abs)

RECURSIVE JoinFrom(_, _, _)
JoinFrom(comps, i, acc) ==
    IF i > Len(comps) THEN acc ELSE JoinFrom(comps, i + 1, PathJoin(acc, comps[i]))

LexicallyNormal(p) ==
    LET abs == is_absolute(p)
        n   == NormalFrom(Components(p), 1, <<>>, abs)
    IN  IF abs THEN JoinFrom(n, 1, "/")
        ELSE IF n = <<>> THEN (IF p = "" THEN "" ELSE ".")
        ELSE JoinFrom(n, 1, "")

\* the number of leading components of p that exist (weakly_canonical's first loop)
RECURSIVE LeadingExisting(_, _, _, _)
LeadingExisting(result, comps, i, files) ==
    IF i > Len(comps) THEN i - 1
    ELSE LET tmp == PathJoin(result, comps[i])
         IN  IF Exists(tmp, files) THEN LeadingExisting(tmp, comps, i + 1, files) ELSE i - 1

\* fs::weakly_canonical
WeaklyCanonical(p, files) ==
    IF Exists(p, files) THEN Canonical(p, files)
    ELSE LET comps == IF is_absolute(p) THEN <<"/">> \o Components(p) ELSE Components(p)
             k     == LeadingExisting("", comps, 1, files)
             head  == JoinFrom(SubSeq(comps, 1, k), 1, "")
             canon == IF head = "" THEN "" ELSE Canonical(head, files)
         IN  LexicallyNormal(JoinFrom(SubSeq(comps, k + 1, Len(comps)), 1, canon))

-----------------------------------------------------------------------------
(* resolve.cpp: the reference resolver.  std::nullopt is Absent. *)

\* the lambda sub of expandElfOrigin: p.find(pat, pos), p.replace, pos += base.size()
RECURSIVE SubOrigin(_, _, _, _)
SubOrigin(p, pat, base, pos) ==
    LET k == Find(p, pat, pos)
    IN  IF k = 0 THEN p
        ELSE SubOrigin(SubSeq(p, 1, k - 1) \o base \o SubSeq(p, k + Len(pat), Len(p)),
                       pat, base, k + Len(base))

expandElfOrigin(p, subject) ==
    LET base == parent_path(subject)
    IN  SubOrigin(SubOrigin(p, "${ORIGIN}", base, 1), "$ORIGIN", base, 1)

\* expandMachOToken expanding @executable_path against the subject's directory
expandMachOToken_subjectDir(p, subjectBin, mainExe, files) ==
    LET dir == parent_path(subjectBin)
    IN  IF StartsWith(p, "@loader_path/") THEN WeaklyCanonical(PathJoin(dir, SubSeq(p, 14, Len(p))), files)
        ELSE IF StartsWith(p, "@executable_path/")
        THEN WeaklyCanonical(PathJoin(dir, SubSeq(p, 18, Len(p))), files)
        ELSE p

expandMachOToken(p, subjectBin, mainExe, files) ==
    LET dir == parent_path(subjectBin)
    IN  IF StartsWith(p, "@loader_path/") THEN WeaklyCanonical(PathJoin(dir, SubSeq(p, 14, Len(p))), files)
        ELSE IF StartsWith(p, "@executable_path/")
        THEN WeaklyCanonical(PathJoin(parent_path(mainExe), SubSeq(p, 18, Len(p))), files)
        ELSE p

\* the first candidate of cands that exists, canonical; Absent when none does
RECURSIVE FirstExisting(_, _, _)
FirstExisting(cands, i, files) ==
    IF i > Len(cands) THEN Absent
    ELSE IF Exists(cands[i], files) THEN WeaklyCanonical(cands[i], files)
    ELSE FirstExisting(cands, i + 1, files)

findLibrary(nameOrPath, searchDirs, files) ==
    IF is_absolute(nameOrPath) /\ Exists(nameOrPath, files) THEN WeaklyCanonical(nameOrPath, files)
    ELSE FirstExisting([i \in 1..Len(searchDirs) |-> PathJoin(searchDirs[i], nameOrPath)], 1, files)

\* resolveELFRef consulting the context search directories before the rpaths
resolveELFRef_dirsFirst(ref, subject, subjectRpaths, searchDirs, files) ==
    LET viaDirs == findLibrary(ref, searchDirs, files)
    IN  IF viaDirs # Absent THEN viaDirs
        ELSE FirstExisting([i \in 1..Len(subjectRpaths) |->
                               PathJoin(expandElfOrigin(subjectRpaths[i], subject), ref)], 1, files)

resolveELFRef(ref, subject, subjectRpaths, searchDirs, files) ==
    IF is_absolute(ref) /\ Exists(ref, files) THEN WeaklyCanonical(ref, files)
    ELSE LET viaRpath == FirstExisting([i \in 1..Len(subjectRpaths) |->
                                           PathJoin(expandElfOrigin(subjectRpaths[i], subject), ref)], 1, files)
         IN  IF viaRpath # Absent THEN viaRpath ELSE findLibrary(ref, searchDirs, files)

resolveMachORef(ref, subject, subjectRpaths, searchDirs, mainExe, files) ==
    IF is_absolute(ref) /\ Exists(ref, files) THEN WeaklyCanonical(ref, files)
    ELSE LET token  == StartsWith(ref, "@loader_path/") \/ StartsWith(ref, "@executable_path/")
             cand   == expandMachOToken(ref, subject, mainExe, files)
             tail   == SubSeq(ref, 8, Len(ref))
             viaRpath ==
                 IF StartsWith(ref, "@rpath/")
                 THEN FirstExisting([i \in 1..Len(subjectRpaths) |->
                          PathJoin(expandMachOToken(subjectRpaths[i], subject, mainExe, files), tail)], 1, files)
                 ELSE Absent
         IN  IF token /\ Exists(cand, files) THEN WeaklyCanonical(cand, files)
             ELSE IF viaRpath # Absent THEN viaRpath
             ELSE findLibrary(ref, searchDirs, files)

resolveRef(type, ref, subject, subjectRpaths, searchDirs, mainExe, files) ==
    IF type = "ELF" THEN resolveELFRef(ref, subject, subjectRpaths, searchDirs, files)
    ELSE IF type = "PE" THEN findLibrary(ref, searchDirs, files)
    ELSE resolveMachORef(ref, subject, subjectRpaths, searchDirs, mainExe, files)

-----------------------------------------------------------------------------
(* resolve.cpp: the deployment filter *)

\* isQtLibraryName with only the "qt6" test
isQtLibraryName_onlyQt6(name) == Contains(ToLower(name), "qt6")

isQtLibraryName(name) ==
    LET lower == ToLower(name)
    IN  Contains(lower, "qt6") \/ StartsWith(lower, "qt")

systemPrefixes == {"api-ms-win-", "ext-ms-win-"}

systemDlls ==
    {"kernel32.dll", "user32.dll", "gdi32.dll", "shell32.dll", "ole32.dll", "advapi32.dll",
     "ws2_32.dll", "ntdll.dll", "sechost.dll", "shlwapi.dll", "comdlg32.dll", "imm32.dll",
     "version.dll", "winmm.dll", "cfgmgr32.dll"}

\* the lambda inQtPath; qt is the record of Qt locations, "" for an absent one
inQtPath(libPath, qt) ==
    \/ qt.qtInstallLibs # "" /\ StartsWith(libPath, qt.qtInstallLibs)
    \/ qt.qtInstallBins # "" /\ StartsWith(libPath, qt.qtInstallBins)
    \/ qt.qtInstallPrefix # "" /\ StartsWith(libPath, qt.qtInstallPrefix)

\* shouldDeployLibrary with the system exclusions tested after the admissions
shouldDeployLibrary_admitFirst(libPath, type, qt, binaryPath) ==
    \/ isQtLibraryName(filename(libPath))
    \/ inQtPath(libPath, qt)
    \/ parent_path(libPath) = parent_path(binaryPath)
    \/ type = "PE" /\ StartsWith(libPath, "/nix/store/")

shouldDeployLibrary(libPath, type, qt, binaryPath) ==
    LET dir   == parent_path(libPath)
        base  == filename(libPath)
        near  == dir = parent_path(binaryPath)
    IN  IF type = "ELF" THEN
            IF StartsWith(libPath, "/lib") \/ StartsWith(libPath, "/usr/lib")
            THEN isQtLibraryName(base) \/ inQtPath(libPath, qt)
            ELSE isQtLibraryName(base) \/ inQtPath(libPath, qt) \/ near
        ELSE IF type = "PE" THEN
            LET lower == ToLower(base)
            IN  IF \E p \in systemPrefixes : StartsWith(lower, p) THEN FALSE
                ELSE IF lower \in systemDlls THEN FALSE
                ELSE \/ StartsWith(libPath, "/nix/store/")
                     \/ isQtLibraryName(base)
                     \/ inQtPath(libPath, qt)
                     \/ near
        ELSE
            IF StartsWith(libPath, "/System/Library/Frameworks/") \/ StartsWith(libPath, "/usr/lib/")
            THEN FALSE
            ELSE isQtLibraryName(base) \/ inQtPath(libPath, qt) \/ near

-----------------------------------------------------------------------------
(* The filter applied to one library: inputs drawn at Init *)

BinaryTypes == {"PE", "ELF", "MACHO"}

FilterDirs ==
    {"/usr/lib", "/usr/lib/x86_64-linux-gnu", "/lib", "/System/Library/Frameworks/QtCore.framework",
     "/System/Library/Frameworks", "/opt/qt/lib", "/opt/qt/bin", "/nix/store/abc-qtbase/bin",
     "/nix/store/abc-glibc/lib", "/app/bin", "/home/u/libs", "/usr/local/lib"}

FilterBases ==
    {"libQt6Core.so.6", "Qt6Core.dll", "QtCore", "qtlabs.dll", "libqtfoo.so", "libz.so.1",
     "libfoo.dylib", "KERNEL32.dll", "kernel32.dll", "WS2_32.DLL", "version.dll", "cfgmgr32.dll",
     "api-ms-win-core-file-l1-1-0.dll", "API-MS-WIN-qt6.dll", "ext-ms-win-qt.dll",
     "libQt6Gui.dylib", "user32.dll.bak", "libstdc++-6.dll", "myQT6helper.dll"}

QtLocations ==
    {[qtInstallLibs |-> "", qtInstallBins |-> "", qtInstallPrefix |-> ""],
     [qtInstallLibs |-> "/opt/qt/lib", qtInstallBins |-> "/opt/qt/bin", qtInstallPrefix |-> "/opt/qt"],
     [qtInstallLibs |-> "/usr/lib", qtInstallBins |-> "/usr/bin", qtInstallPrefix |-> "/usr"],
     [qtInstallLibs |-> "/nix/store/abc-qtbase/lib", qtInstallBins |-> "/nix/store/abc-qtbase/bin",
      qtInstallPrefix |-> "/nix/store/abc-qtbase"]}

FilterBinaries == {"/app/bin/app", "/usr/lib/app", "app", "/System/Library/Frameworks/app"}

InitFilter ==
    /\ IdleExcept("filter")
    /\ fType \in BinaryTypes
    /\ \E d \in FilterDirs, b \in FilterBases : fPath = PathJoin(d, b)
    /\ fQt \in QtLocations
    /\ fBinary \in FilterBinaries
    /\ fDone = FALSE
    /\ fResult = FALSE

\* one call of shouldDeployLibrary(libPath, ref, type, ctx)
ShouldDeploy ==
    /\ ~fDone
    /\ fDone' = TRUE
    /\ fResult' = shouldDeployLibrary(fPath, fType, fQt, fBinary)
    /\ UNCHANGED <<fType, fPath, fQt, fBinary>>

NextFilter == ShouldDeploy /\ UnchangedExcept("filter")

SpecFilter == InitFilter /\ [][NextFilter]_vars

-----------------------------------------------------------------------------
(* One call of resolveRef: inputs drawn at Init *)

MaxRpaths == 2
MaxExtraFiles == 2

\* the sequences without repetition of at most n elements of S
ListsOf(S, n) ==
    {q \in UNION {[1..k -> S] : k \in 0..n} : \A i, j \in 1..Len(q) : q[i] = q[j] => i = j}

SubsetsUpTo(S, n) == {T \in SUBSET S : Cardinality(T) <= n}

\* ctx.searchDirs as ensureEnvForResolution builds it: the binary's directory first
\* (skipped when empty), then the loader-path entries and the Qt libs directory
SearchDirsFor(mainExe, rest) ==
    (IF parent_path(mainExe) = "" THEN <<>> ELSE <<parent_path(mainExe)>>) \o rest

ElfBaseFiles ==
    {"/app/bin/app", "/app/lib/plugins/libp.so", "/work/app", "/opt/qt/lib/libQt6Core.so.6",
     "/usr/lib/libc.so.6"}
ElfExtraFiles ==
    {"/app/lib/libfoo.so.1", "/app/bin/libfoo.so.1", "/opt/qt/lib/libfoo.so.1", "/usr/lib/libfoo.so.1"}
ElfRefs == {"libfoo.so.1", "/opt/qt/lib/libfoo.so.1", "/gone/libfoo.so.1", "libQt6Core.so.6"}
ElfRpathChoices == {"$ORIGIN/../lib", "${ORIGIN}/..", "$ORIGIN/../..${ORIGIN}/../lib", "/usr/lib"}
ElfSubjects == {"/app/bin/app", "/app/lib/plugins/libp.so", "app"}
ElfMains == {"/app/bin/app", "app"}
ElfEnvDirs == {<<"/opt/qt/lib">>, <<"/usr/lib", "/opt/qt/lib">>, <<"/opt/qt/lib", "/usr/lib">>}

InitResolveELF ==
    /\ IdleExcept("resolve")
    /\ rType = "ELF"
    /\ \E extra \in SubsetsUpTo(ElfExtraFiles, MaxExtraFiles) : rFiles = ElfBaseFiles \cup extra
    /\ rSubject \in ElfSubjects
    /\ rMain \in ElfMains
    /\ rRef \in ElfRefs
    /\ rRpaths \in ListsOf(ElfRpathChoices, MaxRpaths)
    /\ \E env \in ElfEnvDirs : rSearchDirs = SearchDirsFor(rMain, env)
    /\ rDone = FALSE
    /\ rFound = Absent

MachoMain == "/build/bin/app"
MachoBaseFiles ==
    {"/build/bin/app", "/build/lib/libnested.dylib", "/out/App.app/Contents/PlugIns/quick/libplugin.dylib",
     "/opt/qt/lib/libz.dylib"}
MachoExtraFiles ==
    {"/build/lib/libfoo.dylib", "/build/bin/libfoo.dylib", "/opt/qt/lib/libfoo.dylib",
     "/opt/qt/lib/QtCore.framework/Versions/A/QtCore",
     "/out/App.app/Contents/PlugIns/quick/libfoo.dylib", "/out/App.app/Contents/PlugIns/lib/libfoo.dylib"}
MachoRefs ==
    {"@executable_path/../lib/libfoo.dylib", "@executable_path/libfoo.dylib",
     "@loader_path/libfoo.dylib", "@loader_path/../lib/libfoo.dylib",
     "@rpath/libfoo.dylib", "@rpath/QtCore.framework/Versions/A/QtCore",
     "libfoo.dylib", "/opt/qt/lib/libfoo.dylib"}
MachoRpathChoices ==
    {"@executable_path/../Frameworks", "@executable_path/../lib", "@loader_path/../lib", "@loader_path"}
MachoSubjects ==
    {"/build/bin/app", "/build/lib/libnested.dylib", "/out/App.app/Contents/PlugIns/quick/libplugin.dylib"}
MachoEnvDirs == {<<>>, <<"/opt/qt/lib">>}

InitResolveMachO ==
    /\ IdleExcept("resolve")
    /\ rType = "MACHO"
    /\ \E extra \in SubsetsUpTo(MachoExtraFiles, MaxExtraFiles) : rFiles = MachoBaseFiles \cup extra
    /\ rSubject \in MachoSubjects
    /\ rMain = MachoMain
    /\ rRef \in MachoRefs
    /\ rRpaths \in ListsOf(MachoRpathChoices, MaxRpaths)
    /\ \E env \in MachoEnvDirs : rSearchDirs = SearchDirsFor(rMain, env)
    /\ rDone = FALSE
    /\ rFound = Absent

\* one call of resolveRef(type, ref, subject, subjectParsed, ctx, cache, mainExe)
Resolve ==
    /\ ~rDone
    /\ rDone' = TRUE
    /\ rFound' = resolveRef(rType, rRef, rSubject, rRpaths, rSearchDirs, rMain, rFiles)
    /\ UNCHANGED <<rType, rFiles, rSubject, rMain, rRef, rRpaths, rSearchDirs>>

NextResolve == Resolve /\ UnchangedExcept("resolve")

SpecResolveELF == InitResolveELF /\ [][NextResolve]_vars
SpecResolveMachO == InitResolveMachO /\ [][NextResolve]_vars

-----------------------------------------------------------------------------
(* Claims about the reference resolver *)

\* every occurrence of ${ORIGIN} and $ORIGIN replaced by base, left to right in one pass
RECURSIVE OriginReplaced(_, _)
OriginReplaced(s, base) ==
    IF s = "" THEN ""
    ELSE IF StartsWith(s, "${ORIGIN}") THEN base \o OriginReplaced(SubSeq(s, 10, Len(s)), base)
    ELSE IF StartsWith(s, "$ORIGIN") THEN base \o OriginReplaced(SubSeq(s, 8, Len(s)), base)
    ELSE Char(s, 1) \o OriginReplaced(SubSeq(s, 2, Len(s)), base)

\* the candidates of an ELF reference in the claimed order
ElfCandidates ==
    (IF is_absolute(rRef) THEN <<rRef>> ELSE <<>>)
    \o [i \in 1..Len(rRpaths) |-> PathJoin(OriginReplaced(rRpaths[i], parent_path(rSubject)), rRef)]
    \o [i \in 1..Len(rSearchDirs) |-> PathJoin(rSearchDirs[i], rRef)]

FirstHit(cands) ==
    LET hits == {i \in 1..Len(cands) : Exists(cands[i], rFiles)}
    IN  IF hits = {} THEN Absent
        ELSE Canonical(cands[CHOOSE i \in hits : \A j \in hits : i <= j], rFiles)

\* C7: an ELF reference resolves to the first existing candidate in the order: the
\* reference itself when absolute, <p>/<ref> for each embedded search path p with
\* $ORIGIN and ${ORIGIN} replaced by the subject's parent directory, <d>/<ref> for
\* each context search directory d; it is absent only when no candidate exists.
C7_ElfFirstExistingCandidate == rDone => rFound = FirstHit(ElfCandidates)

\* found through an rpath holding both tokens although a search directory holds the name too
C7_Witness ==
    /\ rDone /\ rFound = "/app/lib/libfoo.so.1" /\ rRef = "libfoo.so.1"
    /\ rRpaths = <<"/usr/lib", "$ORIGIN/../..${ORIGIN}/../lib">>
    /\ "/opt/qt/lib/libfoo.so.1" \in rFiles /\ Len(rSearchDirs) = 2

\* a Mach-O token expanded as the claim has it
TokenExpanded(p) ==
    IF StartsWith(p, "@executable_path/") THEN PathJoin(parent_path(rMain), SubSeq(p, 18, Len(p)))
    ELSE IF StartsWith(p, "@loader_path/") THEN PathJoin(parent_path(rSubject), SubSeq(p, 14, Len(p)))
    ELSE p

RpathCandidates ==
    [i \in 1..Len(rRpaths) |-> PathJoin(TokenExpanded(rRpaths[i]), SubSeq(rRef, 8, Len(rRef)))]

\* C6: @executable_path/ in a reference or an rpath stands for the directory of the
\* original input binary whatever the subject, @loader_path/ for the directory of
\* the subject: when the file so named exists, it is what the reference resolves to.
C6_TokensExpandedAgainstMainAndSubject ==
    rDone =>
        /\ (StartsWith(rRef, "@executable_path/") \/ StartsWith(rRef, "@loader_path/"))
             /\ Exists(TokenExpanded(rRef), rFiles)
           => rFound = Canonical(TokenExpanded(rRef), rFiles)
        /\ StartsWith(rRef, "@rpath/") /\ FirstHit(RpathCandidates) # Absent
           => rFound = FirstHit(RpathCandidates)

\* a staged QML plugin whose @executable_path reference is found beside the input binary
C6_Witness ==
    /\ rDone /\ rSubject = "/out/App.app/Contents/PlugIns/quick/libplugin.dylib"
    /\ rRef = "@executable_path/../lib/libfoo.dylib" /\ rFound = "/build/lib/libfoo.dylib"
    /\ "/out/App.app/Contents/PlugIns/lib/libfoo.dylib" \in rFiles

\* C8: an @rpath/X reference that no rpath of the subject satisfies resolves to <d>/X
\* for the first context search directory d that contains X.
C8_RpathFallsBackToSearchDirs ==
    LET tail  == SubSeq(rRef, 8, Len(rRef))
        viaDirs == FirstHit([i \in 1..Len(rSearchDirs) |-> PathJoin(rSearchDirs[i], tail)])
    IN  (rDone /\ rType = "MACHO" /\ StartsWith(rRef, "@rpath/")
               /\ FirstHit(RpathCandidates) = Absent /\ viaDirs # Absent)
        => rFound = viaDirs

-----------------------------------------------------------------------------
(* Claims about the deployment filter *)

QtNameHeuristic(path) ==
    LET l == ToLower(filename(path)) IN StartsWith(l, "qt") \/ Contains(l, "qt6")

HostSystemLibrary(type, path) ==
    \/ type = "MACHO" /\ (StartsWith(path, "/System/Library/Frameworks/") \/ StartsWith(path, "/usr/lib/"))
    \/ type = "PE" /\ LET l == ToLower(filename(path))
                      IN  \/ StartsWith(l, "api-ms-win-") \/ StartsWith(l, "ext-ms-win-")
                          \/ l \in systemDlls

\* C9, as stated: on every platform and for every path, a library whose lowercased
\* basename starts with "qt" or contains "qt6" is admitted.
C9_QtNameAlwaysAdmitted == (fDone /\ QtNameHeuristic(fPath)) => fResult

\* C9, amended: a library whose lowercased basename starts with "qt" or contains "qt6"
\* is admitted unless the platform's host-system exclusion applies to it (Mach-O: the
\* path starts with /System/Library/Frameworks/ or /usr/lib/; PE: the lowercased
\* basename starts with api-ms-win- or ext-ms-win- or is an enumerated system DLL).
C9_QtNameAdmittedUnlessSystem ==
    (fDone /\ QtNameHeuristic(fPath) /\ ~HostSystemLibrary(fType, fPath)) => fResult

\* a Qt-named ELF library under /usr/lib, away from the binary and from Qt's directories
C9_Witness ==
    /\ fDone /\ fResult /\ fType = "ELF" /\ QtNameHeuristic(fPath)
    /\ StartsWith(fPath, "/usr/lib") /\ ~inQtPath(fPath, fQt)
    /\ parent_path(fPath) # parent_path(fBinary)

\* C10: a host-system library is never admitted, whatever its Qt-name, Qt-path,
\* near-binary or /nix/store/ status.
C10_HostSystemNeverAdmitted == (fDone /\ HostSystemLibrary(fType, fPath)) => ~fResult

\* an enumerated system DLL sitting in the Qt bins directory inside /nix/store/
C10_Witness ==
    /\ fDone /\ ~fResult /\ fType = "PE" /\ ToLower(filename(fPath)) \in systemDlls
    /\ StartsWith(fPath, "/nix/store/") /\ inQtPath(fPath, fQt)

-----------------------------------------------------------------------------
(* pe_patch.cpp: patchQtCoreDllPrefixInfixPE.  A buffer is a sequence of   *)
(* bytes; offsets are counted from 0 as in the code, buf[i] is At(buf, i). *)

At(buf, i) == buf[i + 1]

\* the character codes of the characters of the keys and of the replacement
Ord(c) ==
    CASE c = "q" -> 113 [] c = "t" -> 116 [] c = "_" -> 95 [] c = "p" -> 112 [] c = "r" -> 114
      [] c = "f" -> 102 [] c = "x" -> 120 [] c = "a" -> 97 [] c = "h" -> 104 [] c = "e" -> 101
      [] c = "=" -> 61 [] c = "." -> 46

\* the code units of a string literal (std::string and std::u16string alike)
Units(s) == [i \in 1..Len(s) |-> Ord(Char(s, i))]

\* std::search(buf.begin() + pos, buf.end(), key.begin(), key.end()); buf.size() stands for buf.end()
Search(buf, pos, key) ==
    LET hits == {i \in pos..(Len(buf) - Len(key)) : SubSeq(buf, i + 1, i + Len(key)) = key}
    IN  IF hits = {} THEN Len(buf) ELSE CHOOSE i \in hits : \A j \in hits : i <= j

\* while (scan < buf.size() && buf[scan] != 0) ++scan;
RECURSIVE ScanAscii(_, _)
ScanAscii(buf, scan) ==
    IF scan < Len(buf) /\ At(buf, scan) # 0 THEN ScanAscii(buf, scan + 1) ELSE scan

\* while (scan + 1 < buf.size() && !(buf[scan] == 0 && buf[scan + 1] == 0)) scan += 2;
RECURSIVE ScanUtf16(_, _)
ScanUtf16(buf, scan) ==
    IF scan + 1 < Len(buf) /\ ~(At(buf, scan) = 0 /\ At(buf, scan + 1) = 0)
    THEN ScanUtf16(buf, scan + 2) ELSE scan

\* the two comparison loops that set needChange
NeedChange(buf, valStart, valLen, rep) ==
    \/ \E i \in 0..(Len(rep) - 1) : At(buf, valStart + i) # rep[i + 1]
    \/ \E i \in Len(rep)..(valLen - 1) : At(buf, valStart + i) # 0

\* Overwrite without the zero fill
Overwrite_noZeroFill(buf, valStart, valLen, rep) ==
    [j \in 1..Len(buf) |->
        LET i == j - 1 - valStart
        IN  IF 0 <= i /\ i < Len(rep) THEN rep[i + 1] ELSE buf[j]]

\* the two assignment loops: the replacement, then zeros up to valLen
Overwrite(buf, valStart, valLen, rep) ==
    [j \in 1..Len(buf) |->
        LET i == j - 1 - valStart
        IN  IF 0 <= i /\ i < Len(rep) THEN rep[i + 1]
            ELSE IF Len(rep) <= i /\ i < valLen THEN 0
            ELSE buf[j]]

\* the body of if (valLen >= replacement.size()) { ... }
PatchValue(buf, valStart, valLen, rep) ==
    IF valLen >= Len(rep) /\ NeedChange(buf, valStart, valLen, rep)
    THEN [buf |-> Overwrite(buf, valStart, valLen, rep), changed |-> TRUE]
    ELSE [buf |-> buf, changed |-> FALSE]

\* the while (true) loop of patchAsciiKey, from pos on
RECURSIVE AsciiLoop(_, _, _, _, _)
AsciiLoop(buf, keyWithEq, replacement, pos, changed) ==
    LET it == Search(buf, pos, keyWithEq)
        valStart == it + Len(keyWithEq)
        scan == ScanAscii(buf, valStart)
        r == PatchValue(buf, valStart, scan - valStart, replacement)
    IN  IF it = Len(buf) THEN [buf |-> buf, changed |-> changed]
        ELSE IF scan <= valStart
             THEN AsciiLoop(buf, keyWithEq, replacement, it + Len(keyWithEq), changed)
             ELSE AsciiLoop(r.buf, keyWithEq, replacement, scan, changed \/ r.changed)

patchAsciiKey(buf, keyWithEq, replacement) ==
    AsciiLoop(buf, Units(keyWithEq), Units(replacement), 0, FALSE)

RECURSIVE toUtf16LeBytes(_)
toUtf16LeBytes(s) ==
    IF s = <<>> THEN <<>>
    ELSE <<Head(s) % 256, (Head(s) \div 256) % 256>> \o toUtf16LeBytes(Tail(s))

\* the while (true) loop of patchUtf16Key, from pos on
RECURSIVE Utf16Loop(_, _, _, _, _)
Utf16Loop(buf, keyBytes, repBytes, pos, changed) ==
    LET it == Search(buf, pos, keyBytes)
        valStart == it + Len(keyBytes)
        scan == ScanUtf16(buf, valStart)
        r == PatchValue(buf, valStart, scan - valStart, repBytes)
    IN  IF it = Len(buf) THEN [buf |-> buf, changed |-> changed]
        ELSE IF scan <= valStart
             THEN Utf16Loop(buf, keyBytes, repBytes, it + Len(keyBytes), changed)
             ELSE Utf16Loop(r.buf, keyBytes, repBytes, scan, changed \/ r.changed)

patchUtf16Key(buf, keyWithEq, replacement) ==
    Utf16Loop(buf, toUtf16LeBytes(Units(keyWithEq)), toUtf16LeBytes(Units(replacement)), 0, FALSE)

PrefixKeys == <<"qt_prfxpath=", "qt_epfxpath=", "qt_hpfxpath=">>

\* the six calls of lines 104-109, in order, on the buffer read from the file
PatchAll(buf) ==
    LET a1 == patchAsciiKey(buf, PrefixKeys[1], ".")
        a2 == patchAsciiKey(a1.buf, PrefixKeys[2], ".")
        a3 == patchAsciiKey(a2.buf, PrefixKeys[3], ".")
        u1 == patchUtf16Key(a3.buf, PrefixKeys[1], ".")
        u2 == patchUtf16Key(u1.buf, PrefixKeys[2], ".")
        u3 == patchUtf16Key(u2.buf, PrefixKeys[3], ".")
    IN  [buf |-> u3.buf,
         any |-> a1.changed \/ a2.changed \/ a3.changed \/ u1.changed \/ u2.changed \/ u3.changed]

\* Files: concatenations of at most MaxSegs segments, a segment being a key in one of
\* the two encodings or a short run of bytes.
MaxSegs == 4

AsciiKeyBytes == {Units(PrefixKeys[k]) : k \in 1..3}
Utf16KeyBytes == {toUtf16LeBytes(Units(PrefixKeys[k])) : k \in 1..3}

FillSegments == {<<0>>, <<46>>, <<97>>, <<47, 97>>, <<97, 98, 99, 0>>}

PatchSegments == AsciiKeyBytes \cup Utf16KeyBytes \cup FillSegments

RECURSIVE Concat(_)
Concat(segs) == IF segs = <<>> THEN <<>> ELSE Head(segs) \o Concat(Tail(segs))

PatchFiles == {Concat(segs) : segs \in ListsOf(PatchSegments, MaxSegs)}

InitPatch ==
    /\ IdleExcept("patch")
    /\ pInput \in PatchFiles
    /\ pFile = pInput
    /\ pBuf = <<>>
    /\ pDone = FALSE
    /\ pReturned = FALSE

\* one call of patchQtCoreDllPrefixInfixPE(qtCorePath) on an existing regular file
PatchQtCore ==
    /\ ~pDone
    /\ pDone' = TRUE
    /\ UNCHANGED pInput
    /\ IF pFile = <<>>
       THEN pBuf' = <<>> /\ pFile' = pFile /\ pReturned' = FALSE
       ELSE LET r == PatchAll(pFile)
            IN  /\ pBuf' = r.buf
                /\ pFile' = IF r.any THEN r.buf ELSE pFile
                /\ pReturned' = r.any

NextPatch == PatchQtCore /\ UnchangedExcept("patch")

SpecPatch == InitPatch /\ [][NextPatch]_vars

-----------------------------------------------------------------------------
(* Claims about the PE patcher *)

\* offsets at which key occurs in buf
Occurrences(buf, key) ==
    {i \in 0..(Len(buf) - Len(key)) : SubSeq(buf, i + 1, i + Len(key)) = key}

\* the end of the value that starts at valStart: the first terminator at or after it
\* (a zero byte, resp. an aligned pair of zero bytes), or where the buffer runs out
ValueEnd(buf, valStart, wide) ==
    IF wide THEN ScanUtf16(buf, valStart) ELSE ScanAscii(buf, valStart)

\* the offsets of the values of all keys in buf, in both encodings
ValueOffsets(buf) ==
    UNION {UNION {valStartOf..(ValueEnd(buf, valStartOf, w) - 1) :
                     valStartOf \in {i + Len(key) : i \in Occurrences(buf, key)}} :
             <<key, w>> \in (AsciiKeyBytes \X {FALSE}) \cup (Utf16KeyBytes \X {TRUE})}

ReplacementBytes(wide) == IF wide THEN toUtf16LeBytes(Units(".")) ELSE Units(".")

EncodedKeys == (AsciiKeyBytes \X {FALSE}) \cup (Utf16KeyBytes \X {TRUE})

KeyOffsets(buf) ==
    UNION {UNION {i..(i + Len(key) - 1) : i \in Occurrences(buf, key)} :
             <<key, w>> \in EncodedKeys}

-----------------------------------------------------------------------------
(* fs_ops.cpp, stage.cpp, translations.cpp, deploy.cpp: an ELF deployment.  *)
(* The output tree maps each path below plan.outputRoot to a node: nothing, *)
(* a regular file (its bytes, last write time, owner-write bit) or a        *)
(* symbolic link (its target, relative to its own directory).  Directories  *)
(* are the ones ensureOutputLayout makes and are not recorded.              *)

NoNode == [kind |-> "none", bytes |-> "", mtime |-> 0, w |-> FALSE, target |-> ""]
FileNode(bytes, mtime) == [kind |-> "file", bytes |-> bytes, mtime |-> mtime, w |-> TRUE, target |-> ""]
LinkNode(target, mtime) == [kind |-> "link", bytes |-> "", mtime |-> mtime, w |-> FALSE, target |-> target]

\* what objdump -p reports as SONAME for a file with these bytes (queryElfSoname's parse)
SonameOf(bytes) ==
    CASE bytes = "A" -> "libA.so.1"
      [] bytes = "B" -> "libA.so.1"
      [] bytes = "F" -> "libA.so.1"
      [] bytes = "D" -> "libD.so.6"
      [] OTHER -> Absent

\* fs::file_size of a file with these bytes
SizeOf(bytes) ==
    CASE bytes = "A" -> 10 [] bytes = "B" -> 20 [] bytes = "F" -> 10 [] bytes = "C" -> 10
      [] bytes = "D" -> 40 [] bytes = "app" -> 30 [] bytes = "app+runpath" -> 30
      [] bytes = "app+runpath, grown" -> 31 [] bytes = "libqxcb" -> 50
      [] bytes = "libqxcb+runpath" -> 50 [] bytes = "libqxcb+runpath, grown" -> 51
      [] StartsWith(bytes, "lconvert of ") -> 60 [] bytes = "lconvert, cut short" -> 7
      [] OTHER -> 5

\* the libraries a closure can return: canonical path, bytes, last write time
StageLibs ==
    {[path |-> "/opt/qt/lib/libA.so.1.2", bytes |-> "A", mtime |-> 1],
     [path |-> "/opt/other/libA.so.1", bytes |-> "B", mtime |-> 1],
     [path |-> "/opt/third/libA.so.1", bytes |-> "F", mtime |-> 1],
     [path |-> "/opt/qt/lib/libC.so", bytes |-> "C", mtime |-> 1],
     [path |-> "/opt/qt/lib/libD.so.6.5", bytes |-> "D", mtime |-> 1]}

MainBinary == [path |-> "/build/bin/app", bytes |-> "app", mtime |-> 1]
PlatformSo == [path |-> "/opt/qt/plugins/platforms/libqxcb.so", bytes |-> "libqxcb", mtime |-> 1]
Catalog == [path |-> "/opt/qt/translations/qtbase_en.qm", bytes |-> "qtbase_en", mtime |-> 1]

LibDirNames ==
    {filename(l.path) : l \in StageLibs} \cup ({SonameOf(l.bytes) : l \in StageLibs} \ {Absent})

OutPaths ==
    {"usr/lib/" \o n : n \in LibDirNames}
        \cup {"usr/bin/qt.conf", "usr/bin/app", "usr/plugins/platforms/libqxcb.so",
              "usr/translations/qt_en.qm", "usr/translations/qtbase_en.qm"}

EmptyTree == [p \in OutPaths |-> NoNode]

\* the path a symlink chain ends at (ELOOP, "", after too many links)
RECURSIVE Deref(_, _, _)
Deref(fs, p, fuel) ==
    IF fs[p].kind # "link" THEN p
    ELSE IF fuel = 0 THEN ""
    ELSE Deref(fs, PathJoin(parent_path(p), fs[p].target), fuel - 1)

\* fs::status(p): the node the path leads to, following links
Status(fs, p) ==
    LET real == Deref(fs, p, Cardinality(OutPaths))
    IN  IF real = "" THEN NoNode ELSE fs[real]

\* a file outside the output tree, as copy source
SourceFile(f) == [bytes |-> f.bytes, mtime |-> f.mtime, at |-> ""]

\* a file of the output tree, as copy source
StagedFile(fs, p) ==
    [bytes |-> Status(fs, p).bytes, mtime |-> Status(fs, p).mtime,
     at |-> Deref(fs, p, Cardinality(OutPaths))]

\* copyFileOverwrite skipping on equal size alone
copyFileOverwrite_sizeAlone(fs, from, to, now) ==
    LET real == Deref(fs, to, Cardinality(OutPaths))
        dst == Status(fs, to)
    IN  IF dst.kind = "file" /\ SizeOf(from.bytes) = SizeOf(dst.bytes)
        THEN [fs |-> fs, ok |-> TRUE]
        ELSE IF real = "" THEN [fs |-> fs, ok |-> FALSE]
        ELSE IF from.at = real THEN [fs |-> [fs EXCEPT ![real].w = TRUE], ok |-> FALSE]
        ELSE [fs |-> [fs EXCEPT ![real] = FileNode(from.bytes, now)], ok |-> TRUE]

\* copyFileOverwrite(from, to) at time now; the tree afterwards and the returned flag
copyFileOverwrite(fs, from, to, now) ==
    LET real == Deref(fs, to, Cardinality(OutPaths))
        dst == Status(fs, to)
    IN  IF dst.kind = "file" /\ SizeOf(from.bytes) = SizeOf(dst.bytes) /\ dst.mtime >= from.mtime
        THEN [fs |-> fs, ok |-> TRUE]
        ELSE IF real = "" THEN [fs |-> fs, ok |-> FALSE]
        ELSE IF from.at = real THEN [fs |-> [fs EXCEPT ![real].w = TRUE], ok |-> FALSE]
        ELSE [fs |-> [fs EXCEPT ![real] = FileNode(from.bytes, now)], ok |-> TRUE]

\* writeQtConfIfNeeded(plan) for ELF: std::ofstream truncates and writes usr/bin/qt.conf
writeQtConfIfNeeded(fs, now) ==
    LET real == Deref(fs, "usr/bin/qt.conf", Cardinality(OutPaths))
    IN  IF real = "" THEN fs
        ELSE [fs EXCEPT ![real] = [FileNode("[Paths] Prefix=..", now) EXCEPT
                                       !.w = IF fs[real].kind = "file" THEN fs[real].w ELSE TRUE]]

\* queryElfSoname(soPath): objdump fails on a path that leads to no file
queryElfSoname(fs, soPath) ==
    IF Status(fs, soPath).kind = "file" THEN SonameOf(Status(fs, soPath).bytes) ELSE Absent

\* lines 90-98 of copyResolvedForELF: the link <soname> -> <file name>, or a second copy
LinkSoname(fs, dest, soname, symlinks, now) ==
    LET linkPath == PathJoin("usr/lib", soname)
        removed == IF Status(fs, linkPath).kind # "none" THEN [fs EXCEPT ![linkPath] = NoNode] ELSE fs
    IN  IF symlinks /\ removed[linkPath].kind = "none"
        THEN [removed EXCEPT ![linkPath] = LinkNode(filename(dest), now)]
        ELSE copyFileOverwrite(removed, StagedFile(removed, dest), linkPath, now).fs

\* the for loop of copyResolvedForELF over libs
RECURSIVE StageLoopELF(_, _, _, _)
StageLoopELF(fs, libs, symlinks, now) ==
    IF libs = <<>> THEN fs
    ELSE LET lib == Head(libs)
             dest == PathJoin("usr/lib", filename(lib.path))
             c == copyFileOverwrite(fs, SourceFile(lib), dest, now)
             soname == queryElfSoname(c.fs, dest)
             linked == IF soname # Absent /\ soname # filename(dest)
                       THEN LinkSoname(c.fs, dest, soname, symlinks, now)
                       ELSE c.fs
         IN  IF ~c.ok THEN StageLoopELF(c.fs, Tail(libs), symlinks, now)
             ELSE StageLoopELF(linked, Tail(libs), symlinks, now)

copyResolvedForELF(fs, libs, symlinks, now) ==
    writeQtConfIfNeeded(StageLoopELF(fs, libs, symlinks, now), now)

\* the output root of a PE deployment: the staged libraries and qt.conf
PETree == [p \in {filename(l.path) : l \in StageLibs} \cup {"qt.conf"} |-> NoNode]

\* the for loop of copyResolvedForPE over libs
RECURSIVE StageLoopPE(_, _, _)
StageLoopPE(fs, libs, now) ==
    IF libs = <<>> THEN fs
    ELSE StageLoopPE(copyFileOverwrite(fs, SourceFile(Head(libs)), filename(Head(libs).path), now).fs,
                     Tail(libs), now)

\* copyResolvedForPE(plan, libs); writeQtConfIfNeeded writes <root>/qt.conf
copyResolvedForPE(fs, libs, now) ==
    [StageLoopPE(fs, libs, now) EXCEPT !["qt.conf"] = FileNode("[Paths] Prefix=.", now)]

\* patchelf --set-rpath on a staged file: it can fail; it can keep or change the file's
\* size; run on a file that already has the RUNPATH it can rewrite it or leave it alone
PatchelfOutcomes == [ok : BOOLEAN, grows : BOOLEAN, rewrites : BOOLEAN]

HasRunpath(bytes) == Contains(bytes, "+runpath")

Patchelf(fs, p, o, now) ==
    LET real == Deref(fs, p, Cardinality(OutPaths))
        n == Status(fs, p)
    IN  IF real = "" \/ n.kind # "file" \/ ~o.ok THEN fs
        ELSE IF HasRunpath(n.bytes)
             THEN IF o.rewrites THEN [fs EXCEPT ![real].mtime = now] ELSE fs
             ELSE [fs EXCEPT ![real].bytes = n.bytes \o (IF o.grows THEN "+runpath, grown" ELSE "+runpath"),
                             ![real].mtime = now]

\* copyMainAndPatchELF(plan)
copyMainAndPatchELF(fs, o, now) ==
    LET dest == PathJoin("usr/bin", filename(MainBinary.path))
        c == copyFileOverwrite(fs, SourceFile(MainBinary), dest, now)
    IN  IF ~c.ok THEN c.fs ELSE Patchelf(c.fs, dest, o, now)

\* copyPluginsELF(ctx, plan): the platform plugin, then patchelf over usr/plugins
copyPluginsELF(fs, plugins, o, now) ==
    IF ~plugins THEN fs
    ELSE LET dest == "usr/plugins/platforms/libqxcb.so"
         IN  Patchelf(copyFileOverwrite(fs, SourceFile(PlatformSo), dest, now).fs, dest, o, now)

\* deployTranslations(ctx, plan) for the language en: lconvert writes the aggregated
\* catalog, or the module catalogs are copied
deployTranslations(fs, catalogs, lconvertOk, now) ==
    IF ~catalogs THEN fs
    ELSE IF lconvertOk
         THEN [fs EXCEPT !["usr/translations/qt_en.qm"] = FileNode("qt_en", now)]
         ELSE copyFileOverwrite(fs, SourceFile(Catalog),
                                PathJoin("usr/translations", filename(Catalog.path)), now).fs

MaxLibs == 3

\* lists of at most n different elements of S
RECURSIVE DistinctLists(_, _)
DistinctLists(S, n) ==
    IF n = 0 THEN {<<>>}
    ELSE {<<>>} \cup {<<c[1]>> \o c[2] :
                          c \in {d \in S \X DistinctLists(S, n - 1) :
                                    \A i \in 1..Len(d[2]) : d[2][i] # d[1]}}

StageInputs ==
    /\ IdleExcept("stage")
    /\ sLibs \in DistinctLists(StageLibs, MaxLibs)
    /\ sSymlinks \in BOOLEAN
    /\ sOut = EmptyTree
    /\ sAfterFirst = EmptyTree
    /\ sNow = 2
    /\ sRun = 1

\* copyResolvedForELF called on the laid out, empty tree of a first run
InitStageELF ==
    /\ StageInputs
    /\ sPlugins = FALSE /\ sCatalogs = FALSE
    /\ sPc = "copyResolved"

\* deploy(plan) about to start
InitDeployELF ==
    /\ StageInputs
    /\ sPlugins \in BOOLEAN /\ sCatalogs \in BOOLEAN
    /\ sPc = "layout"

Step(from, to) ==
    /\ sPc = from
    /\ sPc' = to
    /\ sNow' = sNow + 1
    /\ UNCHANGED <<sLibs, sSymlinks, sPlugins, sCatalogs, sRun, sAfterFirst>>
    /\ UnchangedExcept("stage")

\* ensureOutputLayout(plan): directories only
EnsureOutputLayout == Step("layout", "copyResolved") /\ UNCHANGED sOut

\* copyResolvedForELF(plan, libs)
CopyResolvedForELF ==
    /\ Step("copyResolved", "copyMain")
    /\ sOut' = copyResolvedForELF(sOut, sLibs, sSymlinks, sNow)

CopyMainAndPatchELF ==
    /\ Step("copyMain", "plugins")
    /\ \E o \in PatchelfOutcomes : sOut' = copyMainAndPatchELF(sOut, o, sNow)

\* the first and the second call of copyPluginsELF in deployELF
CopyPluginsELF ==
    /\ \/ Step("plugins", "qml")
       \/ Step("pluginsAgain", "qmlDeps")
    /\ \E o \in PatchelfOutcomes : sOut' = copyPluginsELF(sOut, sPlugins, o, sNow)

\* copyQmlModules(ctx, plan): these deployments have no QML roots
CopyQmlModules == Step("qml", "translations") /\ UNCHANGED sOut

DeployTranslations ==
    /\ Step("translations", "overlays")
    /\ \E lconvertOk \in BOOLEAN : sOut' = deployTranslations(sOut, sCatalogs, lconvertOk, sNow)

\* applyOverlays(plan): plan.overlays is empty in these deployments
ApplyOverlays == Step("overlays", "pluginsAgain") /\ UNCHANGED sOut

\* resolveQmlPluginDependencies(plan): usr/qml holds no plugin library
ResolveQmlPluginDependencies == Step("qmlDeps", "done") /\ UNCHANGED sOut

\* the same deployment started again on the tree the first run left
SecondRun ==
    /\ sPc = "done" /\ sRun = 1
    /\ sRun' = 2
    /\ sPc' = "layout"
    /\ sAfterFirst' = sOut
    /\ sNow' = sNow + 1
    /\ UNCHANGED <<sOut, sLibs, sSymlinks, sPlugins, sCatalogs>>
    /\ UnchangedExcept("stage")

NextStageELF == CopyResolvedForELF

NextDeployELF ==
    \/ EnsureOutputLayout
    \/ CopyResolvedForELF
    \/ CopyMainAndPatchELF
    \/ CopyPluginsELF
    \/ CopyQmlModules
    \/ DeployTranslations
    \/ ApplyOverlays
    \/ ResolveQmlPluginDependencies
    \/ SecondRun

SpecStageELF == InitStageELF /\ [][NextStageELF]_vars
SpecDeployELF == InitDeployELF /\ [][NextDeployELF]_vars

-----------------------------------------------------------------------------
(* Claims about the ELF stager and the deployment as a whole *)

\* the bytes read through a path of the output tree
BytesAt(fs, p) == IF Status(fs, p).kind = "file" THEN Status(fs, p).bytes ELSE Absent

\* C5: after copyResolvedForELF, for every library of the list whose SONAME differs from
\* its file name, usr/lib/<file name> and usr/lib/<SONAME> both exist and hold that
\* library's bytes, whatever the order of the list and also when one library's SONAME is
\* the file name of another one.
C5_SonameAndFileHoldTheLibrary ==
    sPc = "copyMain" =>
        \A i \in 1..Len(sLibs) :
            LET lib == sLibs[i]
                soname == SonameOf(lib.bytes)
            IN  soname # Absent /\ soname # filename(lib.path) =>
                    /\ BytesAt(sOut, PathJoin("usr/lib", filename(lib.path))) = lib.bytes
                    /\ BytesAt(sOut, PathJoin("usr/lib", soname)) = lib.bytes

\* C4: the second run of the deployment writes no file of the output tree: every path
\* holds the node, content and modification time the first run left.
C4_SecondRunWritesNothing ==
    sRun = 2 =>
        \A p \in OutPaths :
            /\ sOut[p].kind = sAfterFirst[p].kind
            /\ sOut[p].bytes = sAfterFirst[p].bytes
            /\ sOut[p].mtime = sAfterFirst[p].mtime
            /\ sOut[p].target = sAfterFirst[p].target

\* the orders in which the closure set can be handed to a stager
Orderings(libs) ==
    {q \in DistinctLists(StageLibs, MaxLibs) :
        Len(q) = Len(libs) /\ {q[i] : i \in DOMAIN q} = {libs[i] : i \in DOMAIN libs}}

\* the same names with the same contents in two trees over the same paths
SameFiles(a, b) ==
    \A p \in DOMAIN a : Status(a, p).kind = Status(b, p).kind /\ BytesAt(a, p) = BytesAt(b, p)

\* C27: the staged library directory does not depend on the order in which the closure
\* set is handed over: for every ordering of the same libraries copyResolvedForELF and
\* copyResolvedForPE leave the same file names with the same contents, also when two
\* libraries share a file name.
C27_StagedLibsOrderIndependent ==
    sPc = "copyMain" =>
        \A q \in Orderings(sLibs) :
            /\ SameFiles(sOut, copyResolvedForELF(EmptyTree, q, sSymlinks, 2))
            /\ SameFiles(copyResolvedForPE(PETree, sLibs, 2), copyResolvedForPE(PETree, q, 2))

-----------------------------------------------------------------------------
(* resolve.cpp resolveAndRecurse and qml.cpp resolveQmlPluginDependencies:  *)
(* the two dependency traversals, for an ELF deployment.                    *)

TMain == "/build/bin/app"
TPlugin == "/out/usr/qml/QtQuick/libqtquick2plugin.so"
TQt == [qtInstallLibs |-> "/opt/qt/lib", qtInstallBins |-> "/opt/qt/bin", qtInstallPrefix |-> "/opt/qt"]
TSearchDirs == SearchDirsFor(TMain, <<"/opt/qt/lib", "/usr/lib">>)

TBaseFiles == {TMain, TPlugin, "/usr/lib/libc.so.6"}
TExtraFiles ==
    {"/opt/qt/lib/libQt6Core.so.6", "/opt/qt/lib/libQt6Gui.so.6", "/opt/qt/lib/libQt6Svg.so.6",
     "/build/bin/libfoo.so.1"}

\* the NEEDED lists a binary can have
TDepChoices(bin) ==
    CASE bin = TMain ->
            {<<"libQt6Core.so.6", "libfoo.so.1">>, <<"libc.so.6", "libQt6Core.so.6">>,
             <<"libfoo.so.1">>, <<"libQt6Gui.so.6", "libbar.so.2">>}
      [] bin = TPlugin ->
            {<<"libQt6Gui.so.6">>, <<"libQt6Svg.so.6", "libfoo.so.1">>,
             <<"libbar.so.2", "libQt6Core.so.6">>}
      [] bin = "/opt/qt/lib/libQt6Core.so.6" -> {<<>>, <<"libc.so.6">>}
      [] bin = "/opt/qt/lib/libQt6Gui.so.6" ->
            {<<"libQt6Core.so.6">>, <<"libQt6Core.so.6", "libQt6Svg.so.6">>}
      [] bin = "/opt/qt/lib/libQt6Svg.so.6" -> {<<"libQt6Gui.so.6">>}
      [] bin = "/build/bin/libfoo.so.1" ->
            {<<>>, <<"libbar.so.2">>, <<"libQt6Svg.so.6">>, <<"libQt6Svg.so.6", "app">>}
      [] OTHER -> {<<>>}

TBinaries == TBaseFiles \cup TExtraFiles

\* the tables that give every binary one of its NEEDED lists
RECURSIVE TablesOver(_)
TablesOver(bins) ==
    IF bins = {} THEN {<<>>}
    ELSE LET b == CHOOSE x \in bins : TRUE
         IN  {(b :> deps) @@ t : deps \in TDepChoices(b), t \in TablesOver(bins \ {b})}

ParseTables == TablesOver(TBinaries)

\* the message of the std::runtime_error of lines 240 and 266
NotFoundMessage(dep) == "Required Qt library not found in search paths: " \o dep

TResolve(dep, subject) ==
    resolveRef("ELF", dep, subject, <<>>, TSearchDirs, TMain, tFiles)

\* the one element of a singleton set: Only({e(x) : x \in {v}}) is e(v), with v worked
\* out once
Only(S) == CHOOSE x \in S : TRUE

\* the loop over the dependencies of subject in resolveAndRecurse (lines 235-242 and
\* 256-269): push what is found and admitted, throw on an unresolved Qt name
RECURSIVE MainDepLoop(_, _, _)
MainDepLoop(subject, deps, stack) ==
    IF deps = <<>> THEN [stack |-> stack, error |-> ""]
    ELSE LET dep == Head(deps)
         IN  Only({IF found # Absent
                   THEN MainDepLoop(subject, Tail(deps),
                                    IF shouldDeployLibrary(found, "ELF", TQt, TMain)
                                    THEN Append(stack, found) ELSE stack)
                   ELSE IF isQtLibraryName(dep)
                        THEN [stack |-> stack, error |-> NotFoundMessage(dep)]
                        ELSE MainDepLoop(subject, Tail(deps), stack) :
                   found \in {TResolve(dep, subject)}})

\* the loop over the dependencies of cur in resolveQmlPluginDependencies (lines 253-264)
RECURSIVE QmlDepLoop(_, _, _, _, _)
QmlDepLoop(subject, deps, stack, visited, result) ==
    IF deps = <<>> THEN [stack |-> stack, result |-> result]
    ELSE Only({IF found # Absent /\ shouldDeployLibrary(found, "ELF", TQt, TMain)
               THEN Only({QmlDepLoop(subject, Tail(deps),
                                     IF fkey \notin visited THEN Append(stack, found) ELSE stack,
                                     visited, result \cup {fkey}) :
                            fkey \in {WeaklyCanonical(found, tFiles)}})
               ELSE QmlDepLoop(subject, Tail(deps), stack, visited, result) :
               found \in {TResolve(Head(deps), subject)}})

\* listQmlPluginLibraries(plan): the .so files below usr/qml
listQmlPluginLibraries == <<TPlugin>>

InitClosure ==
    /\ IdleExcept("closure")
    /\ tKind \in {"main", "qml"}
    /\ \E extra \in SUBSET TExtraFiles : tFiles = TBaseFiles \cup extra
    /\ tParse \in ParseTables
    /\ tStack = <<>> /\ tVisited = {} /\ tResult = {}
    /\ tPc = "start" /\ tError = "" /\ tExit = -1 /\ tLibs = {}
    /\ tCount = [b \in TBinaries |-> 0]

\* the exception leaves the traversal and deploy; main catches it and returns 1
Throw(message) ==
    /\ tPc' = "failed"
    /\ tError' = message
    /\ tExit' = 1

\* resolveAndRecurse up to its while loop: the main binary's own dependencies
SeedMain ==
    /\ tKind = "main" /\ tPc = "start"
    /\ \E r \in {MainDepLoop(TMain, tParse[TMain], <<>>)} :
          IF r.error # ""
          THEN Throw(r.error) /\ UNCHANGED tStack
          ELSE tStack' = r.stack /\ tPc' = "loop" /\ UNCHANGED <<tError, tExit>>
    /\ tCount' = [tCount EXCEPT ![TMain] = @ + 1]
    /\ UNCHANGED <<tKind, tFiles, tParse, tVisited, tResult, tLibs>>
    /\ UnchangedExcept("closure")

\* resolveQmlPluginDependencies up to its while loop: the staged plugin libraries
SeedQml ==
    /\ tKind = "qml" /\ tPc = "start"
    /\ tStack' = listQmlPluginLibraries
    /\ tPc' = "loop"
    /\ UNCHANGED <<tKind, tFiles, tParse, tVisited, tResult, tError, tExit, tLibs, tCount>>
    /\ UnchangedExcept("closure")

\* the iteration without the test of visited
Visit_noVisitedTest ==
    /\ tPc = "loop" /\ tStack # <<>>
    /\ \E cur \in {tStack[Len(tStack)]}, rest \in {SubSeq(tStack, 1, Len(tStack) - 1)} :
       \E key \in {WeaklyCanonical(cur, tFiles)} :
          IF FALSE
          THEN tStack' = rest /\ UNCHANGED <<tVisited, tResult, tPc, tError, tExit, tCount>>
          ELSE /\ tVisited' = tVisited \cup {key}
               /\ tCount' = [tCount EXCEPT ![key] = @ + 1]
               /\ IF tKind = "main"
                  THEN \E r \in {MainDepLoop(cur, tParse[cur], rest)} :
                          /\ tStack' = r.stack
                          /\ UNCHANGED tResult
                          /\ IF r.error # "" THEN Throw(r.error)
                             ELSE UNCHANGED <<tPc, tError, tExit>>
                  ELSE \E r \in {QmlDepLoop(cur, tParse[cur], rest, tVisited \cup {key}, tResult)} :
                          /\ tStack' = r.stack
                          /\ tResult' = r.result
                          /\ UNCHANGED <<tPc, tError, tExit>>
    /\ UNCHANGED <<tKind, tFiles, tParse, tLibs>>
    /\ UnchangedExcept("closure")

\* one iteration of the while loop of either traversal
Visit ==
    /\ tPc = "loop" /\ tStack # <<>>
    /\ \E cur \in {tStack[Len(tStack)]}, rest \in {SubSeq(tStack, 1, Len(tStack) - 1)} :
       \E key \in {WeaklyCanonical(cur, tFiles)} :
          IF key \in tVisited
          THEN tStack' = rest /\ UNCHANGED <<tVisited, tResult, tPc, tError, tExit, tCount>>
          ELSE /\ tVisited' = tVisited \cup {key}
               /\ tCount' = [tCount EXCEPT ![key] = @ + 1]
               /\ IF tKind = "main"
                  THEN \E r \in {MainDepLoop(cur, tParse[cur], rest)} :
                          /\ tStack' = r.stack
                          /\ UNCHANGED tResult
                          /\ IF r.error # "" THEN Throw(r.error)
                             ELSE UNCHANGED <<tPc, tError, tExit>>
                  ELSE \E r \in {QmlDepLoop(cur, tParse[cur], rest, tVisited \cup {key}, tResult)} :
                          /\ tStack' = r.stack
                          /\ tResult' = r.result
                          /\ UNCHANGED <<tPc, tError, tExit>>
    /\ UNCHANGED <<tKind, tFiles, tParse, tLibs>>
    /\ UnchangedExcept("closure")

\* after the loop: the libraries returned (visited without the binary itself), resp.
\* the result set handed to copyResolvedForELF
Finish ==
    /\ tPc = "loop" /\ tStack = <<>>
    /\ tPc' = "done"
    /\ tLibs' = IF tKind = "main" THEN tVisited \ {TMain} ELSE tResult
    /\ UNCHANGED <<tKind, tFiles, tParse, tStack, tVisited, tResult, tError, tExit, tCount>>
    /\ UnchangedExcept("closure")

NextClosure == SeedMain \/ SeedQml \/ Visit \/ Finish

SpecClosure == InitClosure /\ [][NextClosure]_vars

-----------------------------------------------------------------------------
(* Claims about the traversals *)

\* the libraries a subject's dependencies resolve to and the filter admits
AdmittedDeps(subject) ==
    {found \in {TResolve(tParse[subject][i], subject) : i \in 1..Len(tParse[subject])} :
        found # Absent /\ shouldDeployLibrary(found, "ELF", TQt, TMain)}

\* S closed under AdmittedDeps
RECURSIVE DepClosure(_)
DepClosure(S) ==
    LET more == S \cup UNION {AdmittedDeps(b) : b \in S}
    IN  IF more = S THEN S ELSE DepClosure(more)

\* the binaries whose dependencies the traversal is to examine
Subjects ==
    IF tKind = "main" THEN {TMain} \cup DepClosure(AdmittedDeps(TMain))
    ELSE DepClosure({TPlugin})

\* the unresolved references of the subjects that match the Qt-name heuristic
UnresolvedQtRefs ==
    {dep \in UNION {{tParse[b][i] : i \in 1..Len(tParse[b])} : b \in Subjects} :
        /\ isQtLibraryName(dep)
        /\ \E b \in Subjects : \E i \in 1..Len(tParse[b]) :
              tParse[b][i] = dep /\ TResolve(dep, b) = Absent}

\* C1: in both traversals an unresolved reference with a Qt name aborts the deployment
\* with an error naming it and exit code 1; without one the traversal runs to its end,
\* skipping the other unresolved references, and collects the whole closure.
C1_UnresolvedQtRefAborts ==
    tPc \in {"done", "failed"} =>
        IF UnresolvedQtRefs # {}
        THEN tPc = "failed" /\ tExit = 1 /\ \E dep \in UnresolvedQtRefs : tError = NotFoundMessage(dep)
        ELSE tPc = "done" /\ tLibs = IF tKind = "main" THEN Subjects \ {TMain}
                                     ELSE UNION {AdmittedDeps(b) : b \in Subjects}

\* the traversal has returned or thrown
TraversalOver == tPc \in {"done", "failed"}

\* the longest NEEDED list of the run
LongestDeps ==
    CHOOSE n \in {Len(tParse[b]) : b \in DOMAIN tParse} :
        \A b \in DOMAIN tParse : Len(tParse[b]) <= n

\* a bound on the steps the traversal has left: the entries of the worklist, and for
\* every path not yet visited its visit and the entries that visit can push
TraversalRank ==
    IF TraversalOver THEN 0
    ELSE 1 + Len(tStack)
           + (LongestDeps + 1) * Cardinality(TBinaries \ tVisited)
           + (IF tPc = "start" THEN LongestDeps + 1 ELSE 0)

\* every step of a traversal brings it nearer to its end, and short of its end the
\* traversal is at one of its steps
TraversalAdvances ==
    /\ [][TraversalRank' < TraversalRank]_vars
    /\ [](TraversalOver \/ tPc = "start" \/ tPc = "loop")

\* C12 as stated: both traversals end on every dependency graph, and no path has its
\* references walked more than once, the main binary included.
C12_EveryPathExpandedOnce ==
    /\ [](\A b \in DOMAIN tCount : tCount[b] <= 1)
    /\ TraversalAdvances

\* C12: both traversals end on every dependency graph, cyclic ones and ones whose
\* libraries reference the main binary included; the while loop walks the references
\* of each canonical path at most once, and resolveAndRecurse walks those of the main
\* binary once more before the loop, so at most twice.
C12_TraversalsEnd ==
    /\ [](\A b \in DOMAIN tCount :
             tCount[b] <= IF tKind = "main" /\ b = TMain THEN 2 ELSE 1)
    /\ TraversalAdvances

\* a main traversal has ended on a graph with the cycle QtGui <-> QtSvg and a library
\* that references the main binary
C12_Witness ==
    /\ tKind = "main" /\ tPc = "done"
    /\ tParse["/build/bin/libfoo.so.1"] = <<"libQt6Svg.so.6", "app">>
    /\ tParse["/opt/qt/lib/libQt6Gui.so.6"] = <<"libQt6Core.so.6", "libQt6Svg.so.6">>
    /\ {TMain, "/build/bin/libfoo.so.1", "/opt/qt/lib/libQt6Gui.so.6", "/opt/qt/lib/libQt6Svg.so.6"}
           \subseteq tVisited
    /\ tCount[TMain] = 2 /\ tCount["/opt/qt/lib/libQt6Gui.so.6"] = 1

-----------------------------------------------------------------------------
(* stage.cpp, macho_fixups.cpp, deps_parse.cpp: staging a macOS bundle and  *)
(* the install-name fixup.  A Mach-O file is its LC_ID_DYLIB name (Absent   *)
(* for an executable or a loadable bundle), its dependency load commands    *)
(* in order, and its LC_RPATH entries.                                      *)

MachO(id, deps, rpaths) == [id |-> id, deps |-> deps, rpaths |-> rpaths]

\* the last position of the character c in s, 0 when there is none
LastIndexOf(s, c) ==
    LET hits == {i \in 1..Len(s) : Char(s, i) = c}
    IN  IF hits = {} THEN 0 ELSE CHOOSE i \in hits : \A j \in hits : i >= j

\* path::extension
extension(p) ==
    LET f == filename(p)
        k == LastIndexOf(f, ".")
    IN  IF f = "." \/ f = ".." \/ k <= 1 THEN "" ELSE SubSeq(f, k, Len(f))

\* the proper ancestors of a path
RECURSIVE Ancestors(_)
Ancestors(p) ==
    LET up == parent_path(p)
    IN  IF up = "" \/ up = p THEN {} ELSE {up} \cup Ancestors(up)

\* recursive_directory_iterator(root): the regular files and the directories below root
FilesBelow(root, files) == {f \in files : StartsWith(f, root \o "/")}
DirsBelow(root, files) ==
    {d \in UNION {Ancestors(f) : f \in files} : StartsWith(d, root \o "/")}

\* the length of the common prefix of two component lists
RECURSIVE Mismatch(_, _, _)
Mismatch(a, b, i) ==
    IF i <= Len(a) /\ i <= Len(b) /\ a[i] = b[i] THEN Mismatch(a, b, i + 1) ELSE i - 1

\* path::lexically_relative on the components a of the path and b of the base, which
\* agree on their first k components
RelativeFrom(a, b, k) ==
    Only({IF k = Len(a) /\ k = Len(b) THEN "."
          ELSE IF n < 0 THEN ""
          ELSE IF n = 0 /\ k = Len(a) THEN "."
          ELSE JoinFrom([i \in 1..n |-> ".."] \o SubSeq(a, k + 1, Len(a)), 1, "")
          : n \in {Cardinality({i \in (k + 1)..Len(b) : b[i] \notin {".", ".."}})
                       - Cardinality({i \in (k + 1)..Len(b) : b[i] = ".."})}})

\* path::lexically_relative
LexicallyRelative(p, base) ==
    IF is_absolute(p) # is_absolute(base) THEN ""
    ELSE Only({RelativeFrom(a, b, Mismatch(a, b, 1)) : a \in {Components(p)}, b \in {Components(base)}})

\* fs::relative
relative(p, base, files) ==
    Only({LexicallyRelative(pc, bc) : pc \in {WeaklyCanonical(p, files)}, bc \in {WeaklyCanonical(base, files)}})

\* what stands for a loop of the program that never ends
Diverges == "<diverges>"

\* copyResolvedForMachO: the loop that looks for the *.framework directory around a library;
\* "/" is its own parent_path and has_parent_path() holds of it, so the loop leaves an
\* absolute path only at a *.framework component
RECURSIVE frameworkRootOf(_)
frameworkRootOf(cur) ==
    IF cur = "" \/ parent_path(cur) = "" THEN ""
    ELSE IF extension(cur) = ".framework" THEN cur
    ELSE IF parent_path(cur) = cur THEN Diverges
    ELSE frameworkRootOf(parent_path(cur))

\* fs::copy(frameworkRoot, dst, recursive | overwrite_existing | skip_symlinks)
CopyTree(bin, root, dst) ==
    LET from == FilesBelow(root, DOMAIN bin)
        to == {dst \o SubSeq(f, Len(root) + 1, Len(f)) : f \in from}
    IN  [p \in DOMAIN bin \cup to |->
            IF p \in to THEN bin[root \o SubSeq(p, Len(dst) + 1, Len(p))] ELSE bin[p]]

\* copyFileOverwrite(from, to) into a place that holds no file yet
CopyFile(bin, from, to) ==
    IF from \notin DOMAIN bin THEN bin
    ELSE [p \in DOMAIN bin \cup {to} |-> IF p = to THEN bin[from] ELSE bin[p]]

\* the owner-writable files after that fs::copy: copy_file gives each destination the
\* permissions of its source
CopyTreePerms(writable, bin, root, dst) ==
    LET from == FilesBelow(root, DOMAIN bin)
    IN  (writable \ {dst \o SubSeq(f, Len(root) + 1, Len(f)) : f \in from})
            \cup {dst \o SubSeq(f, Len(root) + 1, Len(f)) : f \in from \cap writable}

\* the owner-writable files after that copyFileOverwrite: fs::permissions(to, owner_write, add)
CopyFilePerms(writable, bin, from, to) ==
    IF from \notin DOMAIN bin THEN writable ELSE writable \cup {to}

\* where copyResolvedForMachO puts a library
MachOStagedPath(lib, fwDir) ==
    LET root == frameworkRootOf(parent_path(lib))
    IN  IF root = Diverges THEN Diverges
        ELSE IF root # "" THEN PathJoin(fwDir, filename(root)) \o SubSeq(lib, Len(root) + 1, Len(lib))
        ELSE PathJoin(fwDir, filename(lib))

\* the loop of copyResolvedForMachO over libs, from the i-th on
RECURSIVE StageLoopMachO(_, _, _, _, _, _)
StageLoopMachO(bin, writable, libs, i, copiedFrameworks, fwDir) ==
    IF i > Len(libs) THEN [bin |-> bin, writable |-> writable, ends |-> TRUE]
    ELSE Only({
        IF root = Diverges THEN [bin |-> bin, writable |-> writable, ends |-> FALSE]
        ELSE IF root # "" THEN
            IF filename(root) \in copiedFrameworks
            THEN StageLoopMachO(bin, writable, libs, i + 1, copiedFrameworks, fwDir)
            ELSE StageLoopMachO(CopyTree(bin, root, PathJoin(fwDir, filename(root))),
                                CopyTreePerms(writable, bin, root, PathJoin(fwDir, filename(root))),
                                libs, i + 1, copiedFrameworks \cup {filename(root)}, fwDir)
        ELSE StageLoopMachO(CopyFile(bin, libs[i], PathJoin(fwDir, filename(libs[i]))),
                            CopyFilePerms(writable, bin, libs[i], PathJoin(fwDir, filename(libs[i]))),
                            libs, i + 1, copiedFrameworks, fwDir)
        : root \in {frameworkRootOf(parent_path(libs[i]))}})

\* llvm-install-name-tool -add_rpath: refused when the binary already has the rpath
AddRpath(m, rp) ==
    IF \E i \in DOMAIN m.rpaths : m.rpaths[i] = rp THEN m
    ELSE [m EXCEPT !.rpaths = Append(m.rpaths, rp)]

\* llvm-install-name-tool -id: rewrites LC_ID_DYLIB where there is one
InstallNameId(m, newId) == IF m.id = Absent THEN m ELSE [m EXCEPT !.id = newId]

\* llvm-install-name-tool -change old new
InstallNameChange(m, old, new) ==
    [m EXCEPT !.deps = [i \in DOMAIN m.deps |-> IF m.deps[i] = old THEN new ELSE m.deps[i]]]

\* a line of llvm-otool -L below the header
OtoolLine(name) == "\t" \o name \o " (compatibility version 6.0.0, current version 6.5.0)"

\* the output of llvm-otool -L, line by line: the header, the id where there is one, the dependencies
OtoolL(path, m) ==
    <<path \o ":">> \o (IF m.id = Absent THEN <<>> ELSE <<OtoolLine(m.id)>>)
        \o [i \in DOMAIN m.deps |-> OtoolLine(m.deps[i])]

\* std::isspace
isspace(c) == c \in {" ", "\t", "\n", "\r", "\f"}

\* while (start < line.size() && isspace(line[start])) ++start;   (positions from 1)
RECURSIVE TokenStart(_, _)
TokenStart(line, start) ==
    IF start <= Len(line) /\ isspace(Char(line, start)) THEN TokenStart(line, start + 1) ELSE start

\* while (end < line.size() && !isspace(line[end]) && line[end] != '(') ++end;
RECURSIVE TokenEnd(_, _)
TokenEnd(line, end) ==
    IF end <= Len(line) /\ ~isspace(Char(line, end)) /\ Char(line, end) # "("
    THEN TokenEnd(line, end + 1) ELSE end

\* the getline loop of parseOtoolDepsWithId from line i on
RECURSIVE OtoolLoop(_, _, _, _, _)
OtoolLoop(lines, i, id, tookId, deps) ==
    IF i > Len(lines) THEN [id |-> id, deps |-> deps]
    ELSE Only({
        IF i = 1 \/ end <= start THEN OtoolLoop(lines, i + 1, id, tookId, deps)
        ELSE IF ~tookId THEN OtoolLoop(lines, i + 1, SubSeq(lines[i], start, end - 1), TRUE, deps)
        ELSE OtoolLoop(lines, i + 1, id, tookId, Append(deps, SubSeq(lines[i], start, end - 1)))
        : <<start, end>> \in {<<s, TokenEnd(lines[i], s)>> : s \in {TokenStart(lines[i], 1)}}})

\* parseOtoolDepsWithId(bin), given what llvm-otool -L printed
parseOtoolDepsWithId(out) ==
    IF out = <<>> THEN [id |-> Absent, deps |-> <<>>] ELSE OtoolLoop(out, 1, Absent, FALSE, <<>>)

\* pathStartsWith(p, prefix)
pathStartsWith(p, prefix, files) ==
    \E ps \in {WeaklyCanonical(p, files)}, prs \in {WeaklyCanonical(prefix, files)} :
        prs # "" /\ StartsWith(ps, prs)

\* frameworkInstallNameFromPath: the version, from what follows "Versions/"
VersionBefore(afterVersions) ==
    Only({IF slash # 0 THEN SubSeq(afterVersions, 1, slash - 1) ELSE "A"
          : slash \in {Find(afterVersions, "/", 1)}})

\* frameworkInstallNameFromPath: the version, from what follows ".framework/"
VersionIn(tail) ==
    Only({IF posVersions # 0 THEN VersionBefore(SubSeq(tail, posVersions + Len("Versions/"), Len(tail))) ELSE "A"
          : posVersions \in {Find(tail, "Versions/", 1)}})

\* frameworkInstallNameFromPath: the name, from what follows "Frameworks/"; Absent without ".framework/"
FrameworkNameIn(after) ==
    Only({IF posFramework # 0
          THEN "@rpath/" \o SubSeq(after, 1, posFramework - 1) \o ".framework/Versions/"
                   \o VersionIn(SubSeq(after, posFramework + Len(".framework/"), Len(after)))
                   \o "/" \o SubSeq(after, 1, posFramework - 1)
          ELSE Absent
          : posFramework \in {Find(after, ".framework/", 1)}})

\* frameworkInstallNameFromPath: the name, from the relative path; Absent for the fallback
InstallNameIn(rel) ==
    Only({IF posFw # 0 THEN FrameworkNameIn(SubSeq(rel, posFw + Len("Frameworks/"), Len(rel))) ELSE Absent
          : posFw \in {Find(rel, "Frameworks/", 1)}})

\* frameworkInstallNameFromPath(binPath, bundleRoot)
frameworkInstallNameFromPath(binPath, bundleRoot, files) ==
    Only({IF name # Absent THEN name ELSE "@rpath/" \o filename(binPath)
          : name \in {InstallNameIn(rel) : rel \in {relative(binPath, bundleRoot, files)}}})

\* the lambda findFrameworkBinary: the binaries it can return, none for std::nullopt; the
\* last loop takes the first hit of a directory_iterator, whose order is unspecified
findFrameworkBinary(frameworkRoot, files) ==
    LET full == filename(frameworkRoot)
        suffix == ".framework"
        name == IF Len(full) > Len(suffix) /\ SubSeq(full, Len(full) - Len(suffix) + 1, Len(full)) = suffix
                THEN SubSeq(full, 1, Len(full) - Len(suffix)) ELSE full
        versions == PathJoin(frameworkRoot, "Versions")
        current == PathJoin(versions, "Current")
        letters == {i \in 1..Len(UpperChars) : PathJoin(PathJoin(versions, Char(UpperChars, i)), name) \in files}
        others == {d \in DirsBelow(versions, files) : parent_path(d) = versions /\ PathJoin(d, name) \in files}
    IN  IF ~IsDirectory(versions, files) THEN {}
        ELSE IF Exists(current, files) /\ PathJoin(current, name) \in files THEN {PathJoin(current, name)}
        ELSE IF letters # {}
             THEN {PathJoin(PathJoin(versions, Char(UpperChars, CHOOSE i \in letters : \A j \in letters : i <= j)), name)}
        ELSE {PathJoin(d, name) : d \in others}

\* the framework directories below fwDir, each with what findFrameworkBinary can return of it
FrameworkBinaries(fwDir, files) ==
    [d \in {d \in DirsBelow(fwDir, files) : extension(d) = ".framework"} |-> findFrameworkBinary(d, files)]

\* the sets of binaries the loop over the framework directories can push
RECURSIVE PickSets(_, _)
PickSets(cands, roots) ==
    IF roots = {} THEN {{}}
    ELSE LET d == CHOOSE r \in roots : TRUE
         IN  IF cands[d] = {} THEN PickSets(cands, roots \ {d})
             ELSE {{c} \cup rest : c \in cands[d], rest \in PickSets(cands, roots \ {d})}

\* the vectors bins that fixInstallNamesMachO can collect, as sets (sorted and made unique)
CollectBins(bundle, files) ==
    LET macOSDir == PathJoin(PathJoin(bundle, "Contents"), "MacOS")
        fwDir == PathJoin(PathJoin(bundle, "Contents"), "Frameworks")
        pluginsDir == PathJoin(PathJoin(bundle, "Contents"), "PlugIns")
        dylibs == {f \in FilesBelow(fwDir, files) \cup FilesBelow(pluginsDir, files) : extension(f) = ".dylib"}
    IN  UNION {{{f \in files : parent_path(f) = macOSDir} \cup picked \cup dylibs
                   : picked \in PickSets(cands, DOMAIN cands)}
               : cands \in {FrameworkBinaries(fwDir, files)}}

\* the loop of the second pass over the dependencies otool reported of one binary
RECURSIVE ChangeLoop(_, _, _, _, _)
ChangeLoop(m, deps, i, bundle, files) ==
    IF i > Len(deps) THEN m
    ELSE IF pathStartsWith(deps[i], PathJoin(PathJoin(bundle, "Contents"), "Frameworks"), files)
    THEN ChangeLoop(InstallNameChange(m, deps[i], frameworkInstallNameFromPath(deps[i], bundle, files)),
                    deps, i + 1, bundle, files)
    ELSE ChangeLoop(m, deps, i + 1, bundle, files)

\* the first pass of fixInstallNamesMachO: -id on the binaries under Contents/Frameworks
IdPass(bin, bins, bundle) ==
    [p \in DOMAIN bin |->
        IF p \in bins /\ pathStartsWith(p, PathJoin(PathJoin(bundle, "Contents"), "Frameworks"), DOMAIN bin)
        THEN InstallNameId(bin[p], frameworkInstallNameFromPath(p, bundle, DOMAIN bin))
        ELSE bin[p]]

\* the second pass: -change on every reported dependency that lies under Contents/Frameworks
ChangePass(bin, bins, bundle) ==
    [p \in DOMAIN bin |->
        IF p \in bins
        THEN ChangeLoop(bin[p], parseOtoolDepsWithId(OtoolL(p, bin[p])).deps, 1, bundle, DOMAIN bin)
        ELSE bin[p]]

\* fixInstallNamesMachO(plan) over the collected binaries
fixInstallNamesMachO(bin, bins, bundle) ==
    Only({ChangePass(afterId, bins, bundle) : afterId \in {IdPass(bin, bins, bundle)}})

-----------------------------------------------------------------------------
(* deployMachO on a main binary that links two Qt frameworks, with the      *)
(* cocoa platform plugin; no QML, translations or overlays.                 *)

MachOBundle == "/out/App.app"
MachOMain == "/work/app"
MachOPlugins == "/opt/qt/plugins"
MachOFwDir == PathJoin(PathJoin(MachOBundle, "Contents"), "Frameworks")
MachOSystem == "/usr/lib/libSystem.B.dylib"
MachOFoo == "/opt/vendor/lib/libfoo.dylib"
MachOCocoa == PathJoin(PathJoin(MachOPlugins, "platforms"), "libqcocoa.dylib")
QtFramework(name, v) == "/opt/qt/lib/" \o name \o ".framework/Versions/" \o v \o "/" \o name

\* the name a library has relative to the directory that holds it or its framework
RpathName(lib) ==
    LET root == frameworkRootOf(parent_path(lib))
    IN  IF root \in {"", Diverges} THEN "@rpath/" \o filename(lib)
        ELSE "@rpath/" \o SubSeq(lib, Len(parent_path(root)) + 2, Len(lib))

\* the install names a binary can carry for a library: where Qt's build put it, its
\* @rpath name, and the place in the bundle
InstallNames(lib) == {lib, RpathName(lib), MachOStagedPath(lib, MachOFwDir)}

\* the most dependencies the main binary has on the libraries
MaxEntries == 2

FrameworkVersions == {"A", "5"}

\* the install names the main binary can carry
MainEntries(v) ==
    {MachOSystem} \cup InstallNames(QtFramework("QtCore", v))
        \cup {QtFramework("QtGui", v), RpathName(QtFramework("QtGui", v))}

\* the main binary's dependency lists: it links QtGui, which is how the frameworks
\* come to be among the resolved libraries
MainDeps(v) ==
    {deps \in UNION {DistinctLists(entries, n) : n \in 0..MaxEntries, entries \in {MainEntries(v)}} :
        \E i \in DOMAIN deps : deps[i] \in {QtFramework("QtGui", v), RpathName(QtFramework("QtGui", v))}}

\* the LC_RPATH of the binaries as Qt's build left them
QtRpaths == <<"/opt/qt/lib">>

\* the files of the Qt installation and of the vendor library
QtFiles ==
    {QtFramework(n, v) : n \in {"QtCore", "QtGui"}, v \in FrameworkVersions} \cup {MachOCocoa, MachOFoo}

InitMachO ==
    /\ IdleExcept("macho")
    /\ mPc = "copyResolved"
    /\ mExamined = <<>>
    /\ \E qtWritable \in BOOLEAN : mWritable = IF qtWritable THEN {MachOMain} \cup QtFiles ELSE {MachOMain}
    /\ \E v \in FrameworkVersions, rpathIds \in BOOLEAN, pluginId \in BOOLEAN, dylib \in BOOLEAN :
       \E core \in {QtFramework("QtCore", v)}, gui \in {QtFramework("QtGui", v)} :
       \E coreId \in {IF rpathIds THEN RpathName(core) ELSE core},
          guiId \in {IF rpathIds THEN RpathName(gui) ELSE gui},
          mainDeps \in MainDeps(v),
          guiDep \in InstallNames(core),
          cocoaDep \in {gui, RpathName(gui)} :
       \E qt \in {(MachOMain :> MachO(Absent, IF dylib THEN Append(mainDeps, MachOFoo) ELSE mainDeps, QtRpaths))
                    @@ (core :> MachO(coreId, <<MachOSystem>>, QtRpaths))
                    @@ (gui :> MachO(guiId, <<guiDep, MachOSystem>>, QtRpaths))
                    @@ (MachOCocoa :> MachO(IF pluginId THEN MachOCocoa ELSE Absent,
                                            <<cocoaDep, MachOSystem>>, QtRpaths))} :
          /\ mBin = IF dylib THEN qt @@ (MachOFoo :> MachO(MachOFoo, <<MachOSystem>>, <<>>)) ELSE qt
          /\ mLibs = IF dylib THEN <<core, gui, MachOFoo>> ELSE <<core, gui>>

\* copyResolvedForMachO(plan, libs)
CopyResolvedForMachO ==
    /\ mPc = "copyResolved"
    /\ \E r \in {StageLoopMachO(mBin, mWritable, mLibs, 1, {}, MachOFwDir)} :
          /\ mBin' = r.bin
          /\ mWritable' = r.writable
          /\ mPc' = IF r.ends THEN "copyMain" ELSE "hang"
    /\ UNCHANGED <<mLibs, mExamined>>
    /\ UnchangedExcept("macho")

\* copyMainAndPatchMachO(plan)
CopyMainAndPatchMachO ==
    /\ mPc = "copyMain"
    /\ LET dest == PathJoin(PathJoin(PathJoin(MachOBundle, "Contents"), "MacOS"), filename(MachOMain))
       IN  \E copied \in {CopyFile(mBin, MachOMain, dest)} :
              /\ mBin' = [copied EXCEPT ![dest] = AddRpath(@, "@executable_path/../Frameworks")]
              /\ mWritable' = CopyFilePerms(mWritable, mBin, MachOMain, dest)
    /\ mPc' = "copyPlugins"
    /\ UNCHANGED <<mLibs, mExamined>>
    /\ UnchangedExcept("macho")

\* copyPluginsMachO(ctx, plan); of the plugins it looks for Qt has the cocoa one
CopyPluginsMachO ==
    /\ mPc = "copyPlugins"
    /\ LET dstBase == PathJoin(PathJoin(MachOBundle, "Contents"), "PlugIns")
           dest == PathJoin(PathJoin(dstBase, "platforms"), filename(MachOCocoa))
       IN  \E copied \in {CopyFile(mBin, MachOCocoa, dest)} :
              /\ mBin' = [p \in DOMAIN copied |->
                            IF p \in FilesBelow(dstBase, DOMAIN copied) /\ extension(p) = ".dylib"
                            THEN AddRpath(copied[p], "@loader_path/../../Frameworks") ELSE copied[p]]
              /\ mWritable' = CopyFilePerms(mWritable, mBin, MachOCocoa, dest)
    /\ mPc' = "fixInstallNames"
    /\ UNCHANGED <<mLibs, mExamined>>
    /\ UnchangedExcept("macho")

\* fixInstallNamesMachO(plan), the last step of deployMachO
FixInstallNamesMachO ==
    /\ mPc = "fixInstallNames"
    /\ \E bins \in CollectBins(MachOBundle, DOMAIN mBin) :
       \E afterId \in {IdPass(mBin, bins, MachOBundle)} :
       \E r \in {fixInstallNamesMachO(mBin, bins, MachOBundle)} :
          /\ mBin' = r
          /\ mExamined' = [b \in bins |->
                              [entries |-> afterId[b].deps,
                               examined |-> parseOtoolDepsWithId(OtoolL(b, afterId[b])).deps]]
    /\ mPc' = "done"
    /\ UNCHANGED <<mLibs, mWritable>>
    /\ UnchangedExcept("macho")

NextMachO ==
    \/ CopyResolvedForMachO
    \/ CopyMainAndPatchMachO
    \/ CopyPluginsMachO
    \/ FixInstallNamesMachO

SpecMachO == InitMachO /\ [][NextMachO]_vars

-----------------------------------------------------------------------------
(* The install-name fixup *)

\* the binaries of the bundle
BundleBinaries == FilesBelow(MachOBundle, DOMAIN mBin)

\* a dependency entry whose library was staged under Contents/Frameworks
NamesStagedLibrary(entry) ==
    \E i \in DOMAIN mLibs :
        /\ MachOStagedPath(mLibs[i], MachOFwDir) \in DOMAIN mBin
        /\ entry \in InstallNames(mLibs[i])

\* C2: after fixInstallNamesMachO has run, in every binary of the bundle every
\* dependency entry whose library was staged under Contents/Frameworks begins
\* with @rpath/.
C2_StagedDepsBeginWithRpath ==
    mPc = "done" =>
        \A b \in BundleBinaries : \A i \in DOMAIN mBin[b].deps :
            NamesStagedLibrary(mBin[b].deps[i]) => StartsWith(mBin[b].deps[i], "@rpath/")

\* C24: in the change-references pass of fixInstallNamesMachO every dependency entry of
\* every subject is examined: only the subject's own id line is left out, and for a
\* subject without id line, the main executable, nothing is.
C24_EveryDependencyExamined ==
    mPc = "done" =>
        \A b \in DOMAIN mExamined : mExamined[b].examined = mExamined[b].entries

-----------------------------------------------------------------------------
(* Permissions of the staged files *)

\* C11: after staging, every file the tool placed in the output tree is
\* owner-writable, the files copied as part of a framework directory included.
C11_StagedFilesOwnerWritable ==
    mPc \in {"fixInstallNames", "done"} =>
        \A p \in FilesBelow(MachOBundle, DOMAIN mBin) : p \in mWritable

-----------------------------------------------------------------------------
(* deploy.cpp deploy and resolve.cpp ensureEnvForResolution: the steps of   *)
(* one deployment run in their order, the process environment and the       *)
(* search directories of the contexts the run builds.  What the staging     *)
(* steps write is modelled above; here they only take their turn.           *)

\* util.cpp splitPaths: the non-empty pieces of s between separators
RECURSIVE SplitPathsFrom(_, _, _, _, _)
SplitPathsFrom(s, sep, i, cur, out) ==
    IF i > Len(s) THEN (IF cur # "" THEN Append(out, cur) ELSE out)
    ELSE IF Char(s, i) = sep
         THEN SplitPathsFrom(s, sep, i + 1, "", IF cur # "" THEN Append(out, cur) ELSE out)
         ELSE SplitPathsFrom(s, sep, i + 1, cur \o Char(s, i), out)

splitPaths(s, sep) == SplitPathsFrom(s, sep, 1, "", <<>>)

\* util.cpp pathListSep on a host that is not Windows
pathListSep == ":"

\* the files of the machine the tool runs on
DFiles ==
    {"/build/bin/app", "/work/bin/app", "/work/app", "/opt/qt/lib/libQt6Core.so.6",
     "/opt/qt/bin/Qt6Core.dll", "/usr/lib/libc.so.6"}

\* a fresh ResolveContext: searchDirs and searchDirSet
EmptyContext == [searchDirs |-> <<>>, searchDirSet |-> {}]

addSearchDirInternal(ctx, dir) ==
    IF dir = "" THEN ctx
    ELSE Only({IF key \in ctx.searchDirSet THEN ctx
               ELSE [searchDirs |-> Append(ctx.searchDirs, key),
                     searchDirSet |-> ctx.searchDirSet \cup {key}] :
               key \in {WeaklyCanonical(dir, DFiles)}})

\* for (p : splitPaths(...)) if (!p.empty()) addSearchDirInternal(ctx, p)
RECURSIVE AddSearchDirs(_, _)
AddSearchDirs(ctx, dirs) ==
    IF dirs = <<>> THEN ctx
    ELSE AddSearchDirs(IF Head(dirs) # "" THEN addSearchDirInternal(ctx, Head(dirs)) ELSE ctx,
                       Tail(dirs))

\* newLd = qtLibs; if (!ld.empty()) newLd += sep + ld
PrependedTo(dir, old) == IF old # "" THEN dir \o pathListSep \o old ELSE dir

\* ensureEnvForResolution(ctx) on a fresh context: the context's search directories
\* and the environment it leaves
ensureEnvForResolution(type, binaryPath, qt, env) ==
    Only({
        CASE type = "ELF" ->
               Only({[searchDirs |-> (IF qt.qtInstallLibs # ""
                                      THEN addSearchDirInternal(c1, qt.qtInstallLibs) ELSE c1).searchDirs,
                      env |-> IF qt.qtInstallLibs # ""
                              THEN [env EXCEPT !.LD_LIBRARY_PATH = PrependedTo(qt.qtInstallLibs, @)]
                              ELSE env] :
                     c1 \in {AddSearchDirs(c0, splitPaths(env.LD_LIBRARY_PATH, pathListSep))}})
          [] type = "PE" ->
               Only({[searchDirs |-> (IF qt.qtInstallBins # ""
                                      THEN addSearchDirInternal(c1, qt.qtInstallBins) ELSE c1).searchDirs,
                      env |-> IF qt.qtInstallBins # ""
                              THEN [env EXCEPT !.PATH = PrependedTo(qt.qtInstallBins, @)]
                              ELSE env] :
                     c1 \in {AddSearchDirs(c0, splitPaths(env.PATH, pathListSep))}})
          [] OTHER ->
               Only({[searchDirs |-> (IF qt.qtInstallLibs # ""
                                      THEN addSearchDirInternal(c1, qt.qtInstallLibs) ELSE c1).searchDirs,
                      env |-> IF qt.qtInstallLibs # ""
                              THEN [env EXCEPT
                                      !.DYLD_LIBRARY_PATH = PrependedTo(qt.qtInstallLibs, @),
                                      !.DYLD_FRAMEWORK_PATH = PrependedTo(qt.qtInstallLibs, @)]
                              ELSE env] :
                     c1 \in {AddSearchDirs(
                                AddSearchDirs(c0, splitPaths(env.DYLD_LIBRARY_PATH, pathListSep)),
                                splitPaths(env.DYLD_FRAMEWORK_PATH, pathListSep))}}) :
        c0 \in {addSearchDirInternal(EmptyContext, parent_path(binaryPath))}})

\* deployPE with the main binary copied before the closure is computed
deployPE_mainFirst ==
    <<"copyMain", "resolveAndRecurse", "copyResolved", "applyOverlays", "patchQtCore",
      "ensureEnvForResolution", "copyPlugins", "copyQmlModules", "deployTranslations",
      "resolveQmlPluginDependencies">>

\* the calls of deployPE, deployELF and deployMachO in their order
deployPE ==
    <<"resolveAndRecurse", "copyResolved", "copyMain", "applyOverlays", "patchQtCore",
      "ensureEnvForResolution", "copyPlugins", "copyQmlModules", "deployTranslations",
      "resolveQmlPluginDependencies">>

deployELF ==
    <<"resolveAndRecurse", "copyResolved", "copyMain", "ensureEnvForResolution", "copyPlugins",
      "copyQmlModules", "deployTranslations", "applyOverlays", "copyPlugins",
      "resolveQmlPluginDependencies">>

deployMachO ==
    <<"resolveAndRecurse", "copyResolved", "copyMain", "ensureEnvForResolution", "copyPlugins",
      "copyQmlModules", "deployTranslations", "applyOverlays", "resolveQmlPluginDependencies",
      "fixInstallNames">>

\* deploy(plan)
deploy(type) ==
    <<"ensureOutputLayout">> \o
    (CASE type = "PE" -> deployPE [] type = "ELF" -> deployELF [] OTHER -> deployMachO)

\* the run is at a call of step
Here(step) == dPc \in 1..Len(deploy(dType)) /\ deploy(dType)[dPc] = step

\* the call returns
Returns(step) == dPc' = dPc + 1 /\ dSteps' = Append(dSteps, step)

DeployReturned == dPc = Len(deploy(dType)) + 1

\* the loader-path settings a run can start with
LoaderPaths == {"", "/usr/lib", "/work::/usr/lib", "/usr/lib:/opt/qt/lib/../lib:/usr/lib/"}

\* the files the stagers can put into the output root of a PE deployment
DRootPaths == {"Qt6Core.dll", "QT6CORE.DLL", "foo.dll", "qt.conf"}

\* a library of that name as resolved in the Qt installation
DLib(name) ==
    [path |-> "/opt/qt/bin/" \o name,
     bytes |-> IF ToLower(name) = "qt6core.dll" THEN "Qt6Core, prefix /opt/qt" ELSE name,
     mtime |-> 1]

\* the orders in which an unordered set of resolved libraries can be iterated
DLibsInOrder(names) ==
    {q \in DistinctLists({DLib(n) : n \in names}, Cardinality(names)) : Len(q) = Cardinality(names)}

\* patchQtCoreDllPrefixInfixPE(staged): the prefix values become ".", the length stays
PatchedAt(fs, p, now) ==
    IF fs[p].kind # "file" \/ fs[p].bytes # "Qt6Core, prefix /opt/qt" THEN fs
    ELSE [fs EXCEPT ![p].bytes = "Qt6Core, prefix .", ![p].mtime = now]

InitDeploy ==
    /\ IdleExcept("deploy")
    /\ dType \in {"PE", "ELF", "MACHO"}
    /\ dBinary \in {"/build/bin/app", "bin/app", "app"}
    /\ dQt \in {[qtInstallLibs |-> "/opt/qt/lib", qtInstallBins |-> "/opt/qt/bin"],
                [qtInstallLibs |-> "", qtInstallBins |-> ""]}
    /\ dMissingQt \in BOOLEAN /\ dQmlLibs \in BOOLEAN
    /\ dLibs \in IF dType = "PE" THEN {{"QT6CORE.DLL", "foo.dll"}, {"foo.dll"}, {"Qt6Core.dll"}}
                 ELSE {{"libQt6Core.so.6"}}
    /\ dQmlDeps \in IF dType = "PE" /\ dQmlLibs THEN {{}, {"Qt6Core.dll"}, {"Qt6Core.dll", "foo.dll"}}
                    ELSE {{}}
    /\ dRoot = [p \in DRootPaths |-> NoNode]
    /\ \E path \in LoaderPaths :
          dEnv = [LD_LIBRARY_PATH |-> path, PATH |-> path, DYLD_LIBRARY_PATH |-> path,
                  DYLD_FRAMEWORK_PATH |-> IF path = "" THEN "" ELSE "/opt/qt/lib"]
    /\ dEnv0 = dEnv
    /\ dSearchDirs = <<>> /\ dPc = 1 /\ dSteps = <<>> /\ dPatched = FALSE

DeployEnsureOutputLayout ==
    /\ Here("ensureOutputLayout")
    /\ Returns("ensureOutputLayout")
    /\ UNCHANGED <<dType, dBinary, dQt, dMissingQt, dQmlLibs, dLibs, dEnv, dEnv0, dSearchDirs, dPatched, dQmlDeps, dRoot>>
    /\ UnchangedExcept("deploy")

\* resolveAndRecurse builds its context, then walks the closure and throws at a Qt
\* library it cannot find
DeployResolveAndRecurse ==
    /\ Here("resolveAndRecurse")
    /\ \E r \in {ensureEnvForResolution(dType, dBinary, dQt, dEnv)} :
          dEnv' = r.env /\ dSearchDirs' = r.searchDirs
    /\ IF dMissingQt
       THEN dPc' = 0 /\ dSteps' = Append(dSteps, "resolveAndRecurse")
       ELSE Returns("resolveAndRecurse")
    /\ UNCHANGED <<dType, dBinary, dQt, dMissingQt, dQmlLibs, dLibs, dEnv0, dPatched, dQmlDeps, dRoot>>
    /\ UnchangedExcept("deploy")

\* the steps that stage files
StagingSteps ==
    {"copyResolved", "copyMain", "copyPlugins", "copyQmlModules", "deployTranslations",
     "applyOverlays"}

DeployStagingStep ==
    /\ \E step \in StagingSteps :
          /\ Here(step) /\ Returns(step)
          /\ IF step = "copyResolved" /\ dType = "PE"
             THEN \E libs \in DLibsInOrder(dLibs) : dRoot' = copyResolvedForPE(dRoot, libs, dPc + 1)
             ELSE UNCHANGED dRoot
    /\ UNCHANGED <<dType, dBinary, dQt, dMissingQt, dQmlLibs, dLibs, dEnv, dEnv0, dSearchDirs, dPatched, dQmlDeps>>
    /\ UnchangedExcept("deploy")

\* deployPE lines 31-44: the first library named qt6core.dll in any case is patched
DeployPatchQtCore ==
    /\ Here("patchQtCore")
    /\ Returns("patchQtCore")
    /\ dPatched' = \E base \in dLibs : ToLower(base) = "qt6core.dll"
    /\ IF \E base \in dLibs : ToLower(base) = "qt6core.dll"
       THEN \E base \in {b \in dLibs : ToLower(b) = "qt6core.dll"} : dRoot' = PatchedAt(dRoot, base, dPc + 1)
       ELSE UNCHANGED dRoot
    /\ UNCHANGED <<dType, dBinary, dQt, dMissingQt, dQmlLibs, dLibs, dEnv, dEnv0, dSearchDirs, dQmlDeps>>
    /\ UnchangedExcept("deploy")

\* ResolveContext ctx{...}; ensureEnvForResolution(ctx); in deployPE, deployELF, deployMachO
DeployBuildContext ==
    /\ Here("ensureEnvForResolution")
    /\ Returns("ensureEnvForResolution")
    /\ \E r \in {ensureEnvForResolution(dType, dBinary, dQt, dEnv)} :
          dEnv' = r.env /\ dSearchDirs' = r.searchDirs
    /\ UNCHANGED <<dType, dBinary, dQt, dMissingQt, dQmlLibs, dLibs, dEnv0, dPatched, dQmlDeps, dRoot>>
    /\ UnchangedExcept("deploy")

\* resolveQmlPluginDependencies returns at once without QML plugin libraries, and
\* builds a context of its own otherwise
DeployResolveQmlPluginDependencies ==
    /\ Here("resolveQmlPluginDependencies")
    /\ Returns("resolveQmlPluginDependencies")
    /\ IF dQmlLibs
       THEN \E r \in {ensureEnvForResolution(dType, dBinary, dQt, dEnv)} :
               dEnv' = r.env /\ dSearchDirs' = r.searchDirs
       ELSE UNCHANGED <<dEnv, dSearchDirs>>
    /\ IF dQmlLibs /\ dType = "PE" /\ dQmlDeps # {}
       THEN \E libs \in DLibsInOrder(dQmlDeps) : dRoot' = copyResolvedForPE(dRoot, libs, dPc + 1)
       ELSE UNCHANGED dRoot
    /\ UNCHANGED <<dType, dBinary, dQt, dMissingQt, dQmlLibs, dLibs, dEnv0, dPatched, dQmlDeps>>
    /\ UnchangedExcept("deploy")

DeployFixInstallNames ==
    /\ Here("fixInstallNames")
    /\ Returns("fixInstallNames")
    /\ UNCHANGED <<dType, dBinary, dQt, dMissingQt, dQmlLibs, dLibs, dEnv, dEnv0, dSearchDirs, dPatched, dQmlDeps, dRoot>>
    /\ UnchangedExcept("deploy")

NextDeploy ==
    \/ DeployEnsureOutputLayout \/ DeployResolveAndRecurse \/ DeployStagingStep \/ DeployPatchQtCore
    \/ DeployBuildContext \/ DeployResolveQmlPluginDependencies \/ DeployFixInstallNames

SpecDeploy == InitDeploy /\ [][NextDeploy]_vars

-----------------------------------------------------------------------------
(* The order of the steps *)

\* the steps of the run without the building of the context, each at its first call
RECURSIVE FirstCalls(_, _)
FirstCalls(steps, seen) ==
    IF steps = <<>> THEN <<>>
    ELSE IF Head(steps) \in seen \cup {"ensureEnvForResolution"}
         THEN FirstCalls(Tail(steps), seen)
         ELSE <<Head(steps)>> \o FirstCalls(Tail(steps), seen \cup {Head(steps)})

\* the order the claim gives
StatedOrder(type) ==
    <<"ensureOutputLayout", "resolveAndRecurse", "copyResolved", "copyMain">>
    \o (IF type = "PE" THEN <<"patchQtCore">> ELSE <<>>)
    \o <<"copyPlugins", "copyQmlModules", "deployTranslations", "applyOverlays",
         "resolveQmlPluginDependencies">>
    \o (IF type = "MACHO" THEN <<"fixInstallNames">> ELSE <<>>)

\* C13: on every platform a run that returns has taken its steps in the stated order:
\* layout, closure, libraries, main binary, (PE) the Qt6Core.dll patch, plugins, QML
\* modules, translations, overlays, QML-plugin closure, (Mach-O) install-name fixups.
C13_StepsInStatedOrder ==
    DeployReturned => FirstCalls(dSteps, {}) = StatedOrder(dType)

-----------------------------------------------------------------------------
(* The search directories and the environment *)

\* the directory the main binary is in, in canonical form
MainDirectory ==
    IF parent_path(dBinary) = "" THEN Cwd ELSE WeaklyCanonical(parent_path(dBinary), DFiles)

\* the loader-path entries of env for the platform, then the Qt directory
EntriesAfterMain(env) ==
    (CASE dType = "ELF" -> splitPaths(env.LD_LIBRARY_PATH, pathListSep)
       [] dType = "PE" -> splitPaths(env.PATH, pathListSep)
       [] OTHER -> splitPaths(env.DYLD_LIBRARY_PATH, pathListSep)
                      \o splitPaths(env.DYLD_FRAMEWORK_PATH, pathListSep))
    \o (IF dType = "PE" THEN (IF dQt.qtInstallBins = "" THEN <<>> ELSE <<dQt.qtInstallBins>>)
        ELSE (IF dQt.qtInstallLibs = "" THEN <<>> ELSE <<dQt.qtInstallLibs>>))

\* the canonical forms of dirs in their order, each once, those of seen left out
RECURSIVE CanonicalOnce(_, _)
CanonicalOnce(dirs, seen) ==
    IF dirs = <<>> THEN <<>>
    ELSE Only({IF c \in seen THEN CanonicalOnce(Tail(dirs), seen)
               ELSE <<c>> \o CanonicalOnce(Tail(dirs), seen \cup {c}) :
               c \in {WeaklyCanonical(Head(dirs), DFiles)}})

\* the first context of the run has been built (by resolveAndRecurse)
ContextBuilt == Len(dSteps) >= 2

\* C15: after ensureEnvForResolution, whether the main binary path is absolute, relative
\* with a directory or a bare file name, the search directories begin with the main
\* binary's directory, hold no canonical form twice, and go on with the loader-path
\* entries and then the Qt directory in their order.
C15_MainDirectoryFirst ==
    ContextBuilt =>
        /\ dSearchDirs # <<>>
        /\ dSearchDirs[1] = MainDirectory
        /\ \A i, j \in DOMAIN dSearchDirs :
              WeaklyCanonical(dSearchDirs[i], DFiles) = WeaklyCanonical(dSearchDirs[j], DFiles) => i = j
        /\ Len(dSteps) = 2 => Tail(dSearchDirs) = CanonicalOnce(EntriesAfterMain(dEnv0), {MainDirectory})

\* the loader-path variables of the platform, and the Qt directory put before them
LoaderPathVariables ==
    CASE dType = "ELF" -> {"LD_LIBRARY_PATH"}
      [] dType = "PE" -> {"PATH"}
      [] OTHER -> {"DYLD_LIBRARY_PATH", "DYLD_FRAMEWORK_PATH"}

QtLoaderDirectory == IF dType = "PE" THEN dQt.qtInstallBins ELSE dQt.qtInstallLibs

\* C16: at the end of a deployment run the loader-path variable of the platform holds
\* the Qt libs/bins directory followed by its original value, the Qt directory
\* prepended a single time, and the rest of the environment is as it was.
C16_LoaderPathPrependedOnce ==
    DeployReturned /\ QtLoaderDirectory # "" =>
        \A v \in DOMAIN dEnv :
            dEnv[v] = IF v \in LoaderPathVariables
                      THEN (IF dEnv0[v] = "" THEN QtLoaderDirectory
                            ELSE QtLoaderDirectory \o ":" \o dEnv0[v])
                      ELSE dEnv0[v]

-----------------------------------------------------------------------------
(* The failing closure *)

\* the kinds of file a step of the run writes below the output root; ensureOutputLayout
\* creates directories, resolveAndRecurse and ensureEnvForResolution read and set the
\* environment
WrittenBy(step) ==
    CASE step = "copyResolved" -> {"library", "qt.conf"}
      [] step = "copyMain" -> {"main binary"}
      [] step = "patchQtCore" -> {"library"}
      [] step = "copyPlugins" -> {"plugin"}
      [] step = "copyQmlModules" -> {"QML"}
      [] step = "deployTranslations" -> {"translation"}
      [] step = "applyOverlays" -> {"overlay"}
      [] step = "resolveQmlPluginDependencies" -> {"library"}
      [] step = "fixInstallNames" -> {"library", "main binary", "plugin"}
      [] OTHER -> {}

\* the closure of the main binary has thrown
ClosureFailed == dPc = 0

\* C28: when the closure of the main binary fails on a Qt library that cannot be
\* resolved, no step that writes a library, the main binary, qt.conf, a plugin, a QML
\* or a translation file has run: the run has made the directory skeleton and nothing else.
C28_ClosureFailsBeforeAnyFile ==
    ClosureFailed =>
        /\ dSteps = <<"ensureOutputLayout", "resolveAndRecurse">>
        /\ UNION {WrittenBy(dSteps[i]) : i \in DOMAIN dSteps} = {}

C28_Witness ==
    ClosureFailed /\ dMissingQt /\ dType = "PE" /\ dSteps[1] = "ensureOutputLayout"

-----------------------------------------------------------------------------
(* The contexts of one run *)

\* the search directories of the first context of the run, built by resolveAndRecurse
\* from the environment the run began with
FirstContext == ensureEnvForResolution(dType, dBinary, dQt, dEnv0).searchDirs

\* the machine's files with the Qt core library present in /usr/lib as well
FilesInSeveralDirs == DFiles \cup {"/usr/lib/libQt6Core.so.6", "/usr/lib/Qt6Core.dll"}

BareNames == {"libQt6Core.so.6", "Qt6Core.dll"}

\* C30: every context built during one run (by the closure of the main binary, by the
\* platform driver, by the closure of the QML plugins) has the search directories of
\* the first one in the same order, and a bare library name found in several of them
\* resolves to the same file in each context.
C30_SameSearchDirsInEveryContext ==
    ContextBuilt =>
        /\ dSearchDirs = FirstContext
        /\ \A name \in BareNames :
              findLibrary(name, dSearchDirs, FilesInSeveralDirs)
                  = findLibrary(name, FirstContext, FilesInSeveralDirs)

-----------------------------------------------------------------------------
(* The patched Qt6Core.dll *)

\* C29: at the end of a PE deployment every Qt6Core.dll (the name compared without
\* regard to case) staged into the output root holds the patched prefix values, whether
\* the closure of the main binary or only the closure of the QML plugins staged it.
C29_EveryStagedQtCorePatched ==
    DeployReturned /\ dType = "PE" =>
        \A p \in DRootPaths :
            ToLower(p) = "qt6core.dll" /\ dRoot[p].kind = "file" => dRoot[p].bytes = "Qt6Core, prefix ."

-----------------------------------------------------------------------------
(* fs_ops.cpp applyOverlays and mergeDirectoryTree: the overlay directories *)
(* merged onto the output tree.  An overlay directory here holds            *)
(* directories and regular files: its tree maps a relative path to the file *)
(* there, or to nothing.                                                    *)

OverlayPaths == <<"qt.conf", "plugins/libp.so">>

\* the regular files of an overlay directory, recursive_directory_iterator's entries
RegularFiles(ov) == {p \in DOMAIN ov : ov[p].kind = "file"}

\* the loop of mergeDirectoryTree over the entries of srcRoot (lines 83-124): a
\* regular file is copied to dstRoot / rel with copyFileOverwrite
RECURSIVE MergeFrom(_, _, _, _)
MergeFrom(fs, ov, i, now) ==
    IF i > Len(OverlayPaths) THEN fs
    ELSE IF OverlayPaths[i] \in RegularFiles(ov)
         THEN MergeFrom(copyFileOverwrite(fs, SourceFile(ov[OverlayPaths[i]]), OverlayPaths[i], now).fs,
                        ov, i + 1, now)
         ELSE MergeFrom(fs, ov, i + 1, now)

\* mergeDirectoryTree(srcRoot, dstRoot): nothing for a srcRoot that is no directory
mergeDirectoryTree(fs, ov, now) ==
    IF RegularFiles(ov) = {} THEN fs ELSE MergeFrom(fs, ov, 1, now)

\* applyOverlays(plan): every overlay in the order of plan.overlays
RECURSIVE OverlaysFrom(_, _, _, _)
OverlaysFrom(fs, overlays, k, now) ==
    IF k > Len(overlays) THEN fs
    ELSE OverlaysFrom(mergeDirectoryTree(fs, overlays[k], now), overlays, k + 1, now)

applyOverlays(fs, overlays, now) == OverlaysFrom(fs, overlays, 1, now)

\* what the staging steps can have left at a path: nothing, or a library written
\* during this run or an earlier one
StagedNodes == {NoNode, FileNode("A", 1), FileNode("A", 3), FileNode("B", 3)}

\* what an overlay directory can hold at a path: nothing, or a file as large as the
\* staged library "A", or one of another size
OverlayNodes == {NoNode, FileNode("F", 2), FileNode("B", 2), FileNode("C", 4)}

TreesOf(nodes) == {[p \in {OverlayPaths[i] : i \in DOMAIN OverlayPaths} |-> f[p]] :
                      f \in [{OverlayPaths[i] : i \in DOMAIN OverlayPaths} -> nodes]}

InitOverlay ==
    /\ IdleExcept("overlay")
    /\ oOut \in TreesOf(StagedNodes)
    /\ oStaged = oOut
    /\ oOverlays \in {<<a>> : a \in TreesOf(OverlayNodes)}
                        \cup {<<a, b>> : a \in TreesOf(OverlayNodes),
                                         b \in TreesOf(OverlayNodes \ {FileNode("C", 4)})}
    /\ oNow = 5
    /\ oPc = "staged"

ApplyOverlaysOnto ==
    /\ oPc = "staged"
    /\ oOut' = applyOverlays(oOut, oOverlays, oNow)
    /\ oNow' = oNow + 1
    /\ oPc' = "merged"
    /\ UNCHANGED <<oStaged, oOverlays>>
    /\ UnchangedExcept("overlay")

NextOverlay == ApplyOverlaysOnto

SpecOverlay == InitOverlay /\ [][NextOverlay]_vars

\* the last overlay that provides the path p
LastProviding(p) ==
    CHOOSE k \in DOMAIN oOverlays :
        /\ p \in RegularFiles(oOverlays[k])
        /\ \A j \in DOMAIN oOverlays : p \in RegularFiles(oOverlays[j]) => j <= k

\* C14: after applyOverlays the output tree holds, at the relative path of every
\* regular file of an overlay directory, a file with that overlay file's content, the
\* last overlay's when several provide the path, whatever was staged there before.
C14_OverlayContentInOutput ==
    oPc = "merged" =>
        \A k \in DOMAIN oOverlays : \A p \in RegularFiles(oOverlays[k]) :
            /\ Status(oOut, p).kind = "file"
            /\ Status(oOut, p).bytes = oOverlays[LastProviding(p)][p].bytes

-----------------------------------------------------------------------------
(* deps_parse.cpp parseDepsCached and machoRpathsFor: the ParseCache of a   *)
(* traversal pass.  resolveAndRecurse and resolveQmlPluginDependencies each *)
(* construct one and request the records of the binaries they meet.         *)

MaxRequests == 4

\* the binaries of the machine, and the paths a traversal can name them by
CacheFiles == {"/work/app", "/opt/qt/lib/libQt6Core.so.6", "/build/bin/libfoo.so.1"}

CacheSubjects ==
    {"/work/app", "app", "/work/../work/app", "/opt/qt/lib/libQt6Core.so.6",
     "/opt/qt/lib/../lib/libQt6Core.so.6", "/build/bin/libfoo.so.1", "/gone/libbar.so.2"}

\* canonicalKey(p) keyed by the path as it was given
canonicalKey_asGiven(p) == p

\* canonicalKey(p)
canonicalKey(p) == WeaklyCanonical(p, CacheFiles)

\* the file a subject path leads to
FileOf(subject) == WeaklyCanonical(subject, CacheFiles)

\* what the dependency tool (objdump, otool -L) prints for a file, as parseELF, parsePE
\* or parseMachO return it; an empty record when the tool fails
ParseTool(subject) ==
    CASE FileOf(subject) = "/work/app" ->
            [dependencies |-> <<"libQt6Core.so.6", "libfoo.so.1">>, rpaths |-> <<"$ORIGIN/../lib">>]
      [] FileOf(subject) = "/build/bin/libfoo.so.1" ->
            [dependencies |-> <<"libQt6Core.so.6">>, rpaths |-> <<>>]
      [] OTHER -> [dependencies |-> <<>>, rpaths |-> <<>>]

\* what otool -l gives parseMachORpaths for a file
RpathTool(subject) ==
    IF FileOf(subject) = "/work/app" THEN <<"@executable_path/../Frameworks">> ELSE <<>>

NoRuns == [t \in {"deps", "rpaths"}, f \in {FileOf(x) : x \in CacheSubjects} |-> 0]

InitCache ==
    /\ IdleExcept("cache")
    /\ cType \in {"ELF", "PE", "MACHO"}
    /\ cParseByPath = <<>> /\ cRpathsByPath = <<>>
    /\ cRuns = NoRuns
    /\ cAliases = {} /\ cReturned = <<>> /\ cPass = 1 /\ cRequests = 0

\* parseDepsCached(subject, type, cache)
ParseDepsCached ==
    /\ cRequests < MaxRequests
    /\ \E subject \in CacheSubjects : \E key \in {canonicalKey(subject)} :
          /\ IF key \in DOMAIN cParseByPath
             THEN /\ cReturned' = cParseByPath[key]
                  /\ UNCHANGED <<cParseByPath, cRuns>>
             ELSE /\ cParseByPath' = cParseByPath @@ (key :> ParseTool(subject))
                  /\ cRuns' = [cRuns EXCEPT !["deps", FileOf(subject)] = @ + 1]
                  /\ cReturned' = ParseTool(subject)
          /\ cAliases' = cAliases \cup {subject}
    /\ cRequests' = cRequests + 1
    /\ UNCHANGED <<cType, cRpathsByPath, cPass>>
    /\ UnchangedExcept("cache")

\* machoRpathsFor(subject, cache), which resolveRef calls for a Mach-O subject
MachoRpathsFor ==
    /\ cRequests < MaxRequests
    /\ cType = "MACHO"
    /\ \E subject \in CacheSubjects : \E key \in {canonicalKey(subject)} :
          /\ IF key \in DOMAIN cRpathsByPath
             THEN /\ cReturned' = cRpathsByPath[key]
                  /\ UNCHANGED <<cRpathsByPath, cRuns>>
             ELSE /\ cRpathsByPath' = cRpathsByPath @@ (key :> RpathTool(subject))
                  /\ cRuns' = [cRuns EXCEPT !["rpaths", FileOf(subject)] = @ + 1]
                  /\ cReturned' = RpathTool(subject)
          /\ cAliases' = cAliases \cup {subject}
    /\ cRequests' = cRequests + 1
    /\ UNCHANGED <<cType, cParseByPath, cPass>>
    /\ UnchangedExcept("cache")

\* the main closure has returned and resolveQmlPluginDependencies constructs its own
\* ParseCache (qml.cpp line 241)
QmlPassBegins ==
    /\ cPass = 1
    /\ cPass' = 2
    /\ cParseByPath' = <<>> /\ cRpathsByPath' = <<>>
    /\ cRuns' = NoRuns /\ cAliases' = {}
    /\ UNCHANGED <<cType, cReturned, cRequests>>
    /\ UnchangedExcept("cache")

NextCache == ParseDepsCached \/ MachoRpathsFor \/ QmlPassBegins

SpecCache == InitCache /\ [][NextCache]_vars

-----------------------------------------------------------------------------
(* binary_detect.cpp detectBinaryType.  A file is its size and the bytes    *)
(* that are not zero, by offset.  The bytes of the inputs stay below 128 in *)
(* the most significant place of a 32-bit field, so that a field's value is *)
(* the sum below.                                                           *)

ByteAt(file, off) == IF off \in DOMAIN file.data THEN file.data[off] ELSE 0

\* the four bytes at off, in file order
FourBytesAt(file, off) == <<ByteAt(file, off), ByteAt(file, off + 1), ByteAt(file, off + 2), ByteAt(file, off + 3)>>

\* the lambdas u32le_at and u32be_at: ok is false when the field ends past the file
u32le_at(file, off) ==
    IF off + 4 > file.size THEN [ok |-> FALSE, out |-> 0]
    ELSE [ok |-> TRUE,
          out |-> ByteAt(file, off) + 256 * ByteAt(file, off + 1) + 65536 * ByteAt(file, off + 2)
                     + 16777216 * ByteAt(file, off + 3)]

u32be_at(file, off) ==
    IF off + 4 > file.size THEN [ok |-> FALSE, out |-> 0]
    ELSE [ok |-> TRUE,
          out |-> 16777216 * ByteAt(file, off) + 65536 * ByteAt(file, off + 1) + 256 * ByteAt(file, off + 2)
                     + ByteAt(file, off + 3)]

\* the magic numbers, as the bytes u32be_from0 reads them from
ELF_MAGIC == <<127, 69, 76, 70>>
MH_MAGIC == <<254, 237, 250, 206>>
MH_CIGAM == <<206, 250, 237, 254>>
MH_MAGIC_64 == <<254, 237, 250, 207>>
MH_CIGAM_64 == <<207, 250, 237, 254>>
FAT_MAGIC == <<202, 254, 186, 190>>
FAT_CIGAM == <<190, 186, 254, 202>>
FAT_MAGIC_64 == <<202, 254, 186, 191>>
FAT_CIGAM_64 == <<191, 186, 254, 202>>

Detected(type) == [type |-> type, whyNot |-> ""]
NotDetected(whyNot) == [type |-> Absent, whyNot |-> whyNot]

\* lines 57-69: 'MZ', and 'PE\0\0' at e_lfanew
IsPE(file) ==
    /\ ByteAt(file, 0) = 77 /\ ByteAt(file, 1) = 90
    /\ file.size >= 64
    /\ \E e \in {u32le_at(file, 60)} :
          /\ e.ok
          /\ e.out <= file.size - 4
          /\ FourBytesAt(file, e.out) = <<80, 69, 0, 0>>

\* lines 88-104 with nfat_arch read big-endian whatever the magic
FatHeader_alwaysBigEndian(file, be) ==
    Only({IF ~n.ok THEN NotDetected("truncated fat header")
          ELSE IF n.out = 0 \/ n.out > 64
               THEN NotDetected("CAFEBABE but invalid nfat_arch (likely not Mach-O)")
          ELSE IF 8 + n.out * (IF be \in {FAT_MAGIC_64, FAT_CIGAM_64} THEN 32 ELSE 20) > file.size
               THEN NotDetected("fat header larger than file")
          ELSE Detected("MACHO") :
          n \in {u32be_at(file, 4)}})

\* lines 88-104 with no reason given for a truncated header
FatHeader_truncatedUnexplained(file, be) ==
    Only({IF ~n.ok THEN NotDetected("")
          ELSE IF n.out = 0 \/ n.out > 64
               THEN NotDetected("CAFEBABE but invalid nfat_arch (likely not Mach-O)")
          ELSE IF 8 + n.out * (IF be \in {FAT_MAGIC_64, FAT_CIGAM_64} THEN 32 ELSE 20) > file.size
               THEN NotDetected("fat header larger than file")
          ELSE Detected("MACHO") :
          n \in {IF be \in {FAT_MAGIC, FAT_MAGIC_64} THEN u32be_at(file, 4) ELSE u32le_at(file, 4)}})

\* lines 88-104: the header of a fat file whose magic is be
FatHeader(file, be) ==
    Only({IF ~n.ok THEN NotDetected("truncated fat header")
          ELSE IF n.out = 0 \/ n.out > 64
               THEN NotDetected("CAFEBABE but invalid nfat_arch (likely not Mach-O)")
          ELSE IF 8 + n.out * (IF be \in {FAT_MAGIC_64, FAT_CIGAM_64} THEN 32 ELSE 20) > file.size
               THEN NotDetected("fat header larger than file")
          ELSE Detected("MACHO") :
          n \in {IF be \in {FAT_MAGIC, FAT_MAGIC_64} THEN u32be_at(file, 4) ELSE u32le_at(file, 4)}})

\* detectBinaryType(p, whyNot) for the file at p; statable is false for a file that
\* is gone by now, openable for one the process may not read
detectBinaryType(file) ==
    IF ~file.statable THEN NotDetected("cannot stat file")
    ELSE IF ~file.openable THEN NotDetected("cannot open file")
    ELSE IF file.size < 4 THEN NotDetected("file too small")
    ELSE IF FourBytesAt(file, 0) = ELF_MAGIC THEN Detected("ELF")
    ELSE IF IsPE(file) THEN Detected("PE")
    ELSE IF FourBytesAt(file, 0) \in {MH_MAGIC, MH_CIGAM, MH_MAGIC_64, MH_CIGAM_64} THEN Detected("MACHO")
    ELSE IF FourBytesAt(file, 0) \in {FAT_MAGIC, FAT_MAGIC_64, FAT_CIGAM, FAT_CIGAM_64}
         THEN FatHeader(file, FourBytesAt(file, 0))
    ELSE NotDetected("unknown binary format")

-----------------------------------------------------------------------------
(* args.cpp parseArgs and main.cpp main *)

MaxArgs == 3

EmptyArgs == [binaryPath |-> "", outDir |-> "", qmlRoots |-> <<>>, languages |-> <<>>, overlays |-> <<>>]

\* the for loop of parseArgs from argv[i] on (argv[0] left out): ok is false for
\* std::nullopt, usage tells whether printUsage was called, help whether it was called
\* for -h or --help
RECURSIVE ParseFrom(_, _, _)
ParseFrom(argv, i, args) ==
    IF i > Len(argv)
    THEN (IF args.binaryPath = "" \/ args.outDir = ""
          THEN [ok |-> FALSE, usage |-> TRUE, help |-> FALSE, args |-> EmptyArgs]
          ELSE [ok |-> TRUE, usage |-> FALSE, help |-> FALSE, args |-> args])
    ELSE IF argv[i] = "--bin" /\ i + 1 <= Len(argv)
         THEN ParseFrom(argv, i + 2, [args EXCEPT !.binaryPath = argv[i + 1]])
    ELSE IF argv[i] = "--out" /\ i + 1 <= Len(argv)
         THEN ParseFrom(argv, i + 2, [args EXCEPT !.outDir = argv[i + 1]])
    ELSE IF argv[i] = "--qml-root" /\ i + 1 <= Len(argv)
         THEN ParseFrom(argv, i + 2, [args EXCEPT !.qmlRoots = Append(@, argv[i + 1])])
    ELSE IF argv[i] = "--languages" /\ i + 1 <= Len(argv)
         THEN ParseFrom(argv, i + 2, [args EXCEPT !.languages = @ \o splitPaths(argv[i + 1], ",")])
    ELSE IF argv[i] = "--overlay" /\ i + 1 <= Len(argv)
         THEN ParseFrom(argv, i + 2, [args EXCEPT !.overlays = Append(@, argv[i + 1])])
    ELSE IF argv[i] \in {"-h", "--help"}
         THEN [ok |-> FALSE, usage |-> TRUE, help |-> TRUE, args |-> EmptyArgs]
    ELSE [ok |-> FALSE, usage |-> TRUE, help |-> FALSE, args |-> EmptyArgs]

parseArgs(argv) == ParseFrom(argv, 1, EmptyArgs)

\* the bytes placed at off
BytesFrom(off, bytes) == [o \in off..(off + Len(bytes) - 1) |-> bytes[o - off + 1]]

\* a regular file of this size with these bytes, those past its end cut off
File(size, data) ==
    [kind |-> "file", size |-> size, data |-> [o \in {x \in DOMAIN data : x < size} |-> data[o]],
     openable |-> TRUE, statable |-> TRUE]

Missing == [kind |-> "missing", size |-> 0, data |-> <<>>, openable |-> FALSE, statable |-> FALSE]
Directory == [kind |-> "directory", size |-> 0, data |-> <<>>, openable |-> FALSE, statable |-> FALSE]

Magics ==
    {ELF_MAGIC, MH_MAGIC, MH_CIGAM, MH_MAGIC_64, MH_CIGAM_64, FAT_MAGIC, FAT_CIGAM, FAT_MAGIC_64,
     FAT_CIGAM_64}

\* v as the four bytes of a little-endian field
LittleEndian(v) == <<v % 256, (v \div 256) % 256, (v \div 65536) % 256, v \div 16777216>>

ShortFiles == {File(n, BytesFrom(0, m)) : n \in 0..3, m \in {ELF_MAGIC, FAT_MAGIC}}

MagicFiles == {File(n, BytesFrom(0, m)) : n \in {4, 100}, m \in Magics \cup {<<77, 90, 0, 0>>, <<1, 2, 3, 4>>}}

MZFiles ==
    {File(n, BytesFrom(0, <<77, 90>>) @@ BytesFrom(60, LittleEndian(e)) @@ BytesFrom(e, sig)) :
        n \in {63, 64, 68, 100}, e \in {60, 64, 96, 97, 120, 1677721600},
        sig \in {<<80, 69, 0, 0>>, <<80, 69, 0, 1>>}}

FatFiles ==
    {File(n, BytesFrom(0, m) @@ BytesFrom(4, <<b4, b5, b6, b7>>)) :
        n \in {4, 7, 8, 27, 28, 47, 48, 71, 72, 1287, 1288, 2055, 2056},
        m \in {FAT_MAGIC, FAT_CIGAM, FAT_MAGIC_64, FAT_CIGAM_64},
        b4 \in {0, 1, 2, 64, 65}, b5 \in {0, 1}, b6 \in {0, 1}, b7 \in {0, 1, 2, 64, 65}}

UnreadableFiles ==
    {[File(100, BytesFrom(0, ELF_MAGIC)) EXCEPT !.openable = FALSE],
     [File(100, BytesFrom(0, FAT_MAGIC)) EXCEPT !.statable = FALSE]}

BinaryFiles == ShortFiles \cup MagicFiles \cup MZFiles \cup FatFiles \cup UnreadableFiles

ArgTokens == {"--bin", "--out", "--overlay", "-h", "--help", "--frob", "app"}

GoodArgv == <<"--bin", "app", "--out", "out">>

Argvs ==
    UNION {[1..k -> ArgTokens] : k \in 0..MaxArgs}
        \cup {GoodArgv, GoodArgv \o <<"-h">>, GoodArgv \o <<"--frob">>, GoodArgv \o <<"--overlay">>,
              <<"--languages", "en,,de">> \o GoodArgv \o <<"--overlay", "ov", "--qml-root", "qml">>,
              <<"--bin", "--out", "--out", "--bin">>}

\* util.cpp programOnPath: whether `command -v name` exits 0
programOnPath(host, name) == name \in host.onPath

\* util.cpp fileExistsExecutable of the path in QTPATHS_BIN
fileExistsExecutable(host, p) == p # "" /\ host.qtpathsBinExists

\* tools.cpp computeMissingTools: the programs required for this format that are
\* not there, in the order they are reported
computeMissingTools(type, host) ==
    LET qtpathsBin == host.qtpathsBin
        haveQtpaths == IF qtpathsBin # "" THEN fileExistsExecutable(host, qtpathsBin)
                       ELSE programOnPath(host, "qtpaths")
        need(name) == IF programOnPath(host, name) THEN <<>> ELSE <<name>>
    IN  (IF haveQtpaths THEN <<>>
         ELSE IF qtpathsBin = "" THEN <<"qtpaths">> ELSE <<qtpathsBin \o " (from QTPATHS_BIN)">>)
        \o need("qmlimportscanner") \o need("lconvert")
        \o (IF type = "ELF" THEN need("objdump") \o need("patchelf")
            ELSE IF type = "PE" THEN need("x86_64-w64-mingw32-objdump")
            ELSE need("llvm-otool") \o need("llvm-install-name-tool"))

\* the programs the deployment runs
Tools ==
    {"qtpaths", "qmlimportscanner", "lconvert", "objdump", "patchelf", "x86_64-w64-mingw32-objdump",
     "llvm-otool", "llvm-install-name-tool"}

\* a host with every program on PATH and QTPATHS_BIN unset
FullHost == [onPath |-> Tools, qtpathsBin |-> "", qtpathsBinExists |-> FALSE]

\* hosts that lack at most one program, or have QTPATHS_BIN set
Hosts ==
    {[FullHost EXCEPT !.onPath = Tools \ gone] : gone \in {{}} \cup {{t} : t \in Tools}}
        \cup {[onPath |-> Tools \ gone, qtpathsBin |-> "/opt/qt/bin/qtpaths6", qtpathsBinExists |-> e] :
                gone \in {{}, {"qtpaths"}}, e \in BOOLEAN}

InitMain ==
    /\ IdleExcept("main")
    /\ \/ aArgv \in Argvs /\ aFile = File(100, BytesFrom(0, ELF_MAGIC)) /\ aHost = FullHost
       \/ aArgv = GoodArgv /\ aFile \in BinaryFiles \cup {Missing, Directory} /\ aHost = FullHost
       \/ /\ aArgv = GoodArgv
          /\ aFile \in {File(100, BytesFrom(0, m)) : m \in {ELF_MAGIC, MH_MAGIC_64, <<1, 2, 3, 4>>}}
                        \cup {File(100, BytesFrom(0, <<77, 90>>) @@ BytesFrom(60, LittleEndian(64))
                                         @@ BytesFrom(64, <<80, 69, 0, 0>>))}
          /\ aHost \in Hosts
    /\ aDeployThrows \in BOOLEAN
    /\ aOutTouched = FALSE
    /\ aArgs = EmptyArgs /\ aUsage = FALSE
    /\ aType = "unset" /\ aWhyNot = ""
    /\ aPc = "parseArgs" /\ aExit = -1

\* return code;
Return(code) == aPc' = "exited" /\ aExit' = code

\* main lines 1653-1657
MainParseArgs ==
    /\ aPc = "parseArgs"
    /\ \E r \in {parseArgs(aArgv)} :
          /\ aArgs' = r.args /\ aUsage' = r.usage
          /\ IF ~r.ok THEN Return(2) ELSE aPc' = "checkBinary" /\ UNCHANGED aExit
    /\ UNCHANGED <<aArgv, aFile, aDeployThrows, aHost, aOutTouched, aType, aWhyNot>>
    /\ UnchangedExcept("main")

\* main lines 1659-1667
MainCheckBinary ==
    /\ aPc = "checkBinary"
    /\ IF aFile.kind = "missing" THEN Return(2)
       ELSE IF aFile.kind # "file" THEN Return(2)
       ELSE aPc' = "detect" /\ UNCHANGED aExit
    /\ UNCHANGED <<aArgv, aFile, aDeployThrows, aHost, aOutTouched, aArgs, aUsage, aType, aWhyNot>>
    /\ UnchangedExcept("main")

\* main lines 1669-1677
MainDetect ==
    /\ aPc = "detect"
    /\ \E r \in {detectBinaryType(aFile)} :
          /\ aType' = r.type /\ aWhyNot' = r.whyNot
          /\ IF r.type = Absent THEN Return(2) ELSE aPc' = "deploy" /\ UNCHANGED aExit
    /\ UNCHANGED <<aArgv, aFile, aDeployThrows, aHost, aOutTouched, aArgs, aUsage>>
    /\ UnchangedExcept("main")

\* main lines 1676-1692: ensureOutputLayout, the deployment, and the catch of
\* std::exception
MainDeploy ==
    /\ aPc = "deploy"
    /\ aOutTouched' = TRUE
    /\ IF aDeployThrows THEN Return(1) ELSE Return(0)
    /\ UNCHANGED <<aArgv, aFile, aDeployThrows, aHost, aArgs, aUsage, aType, aWhyNot>>
    /\ UnchangedExcept("main")

NextMain == MainParseArgs \/ MainCheckBinary \/ MainDetect \/ MainDeploy

SpecMain == InitMain /\ [][NextMain]_vars

-----------------------------------------------------------------------------
(* Detection and the exit code *)

\* C18: detectBinaryType is total: for every file content it returns a BinaryType, or
\* absent with a reason that is not empty; never absent with no reason.
C18_AbsentWithReason ==
    aType # "unset" =>
        \/ aType \in {"PE", "ELF", "MACHO"}
        \/ aType = Absent /\ aWhyNot # ""

\* detection has failed on an MZ file without PE signature, on a file of three bytes
\* or on a fat magic with no room for nfat_arch
C18_Witness ==
    /\ aType = Absent /\ aWhyNot # ""
    /\ \/ FourBytesAt(aFile, 0) = <<77, 90, 0, 0>> /\ aFile.size = 100
       \/ aFile.size = 3
       \/ FourBytesAt(aFile, 0) = FAT_CIGAM /\ aFile.size = 7

\* nfat_arch of a fat file, read in the byte order of its magic
NfatArch(file) ==
    IF FourBytesAt(file, 0) \in {FAT_MAGIC, FAT_MAGIC_64}
    THEN ((ByteAt(file, 4) * 256 + ByteAt(file, 5)) * 256 + ByteAt(file, 6)) * 256 + ByteAt(file, 7)
    ELSE ((ByteAt(file, 7) * 256 + ByteAt(file, 6)) * 256 + ByteAt(file, 5)) * 256 + ByteAt(file, 4)

EntrySize(file) == IF FourBytesAt(file, 0) \in {FAT_MAGIC_64, FAT_CIGAM_64} THEN 32 ELSE 20

HasFatMagic(file) ==
    /\ file.kind = "file" /\ file.statable /\ file.openable /\ file.size >= 4
    /\ FourBytesAt(file, 0) \in {FAT_MAGIC, FAT_MAGIC_64, FAT_CIGAM, FAT_CIGAM_64}

\* C19: for a file that begins with a fat magic detectBinaryType returns MACHO exactly
\* when nfat_arch, read at offset 4 in the byte order of the magic, is from 1 to 64 and
\* 8 + nfat_arch * entry_size (20, or 32 for the 64-bit magics) is at most the file
\* size; otherwise it fails.
C19_FatIffHeaderFits ==
    aType # "unset" /\ HasFatMagic(aFile) =>
        IF /\ aFile.size >= 8
           /\ NfatArch(aFile) \in 1..64
           /\ 8 + NfatArch(aFile) * EntrySize(aFile) <= aFile.size
        THEN aType = "MACHO"
        ELSE aType = Absent

\* a byte-swapped 64-bit fat file of two architectures, exactly as large as its header,
\* has been detected
C19_Witness ==
    /\ aType = "MACHO"
    /\ FourBytesAt(aFile, 0) = FAT_CIGAM_64
    /\ FourBytesAt(aFile, 4) = <<2, 0, 0, 0>>
    /\ aFile.size = 72

\* the exit code the documented table gives
StatedExitCode ==
    IF parseArgs(aArgv).help THEN 0
    ELSE IF ~parseArgs(aArgv).ok THEN 2
    ELSE IF aFile.kind # "file" THEN 2
    ELSE IF detectBinaryType(aFile).type = Absent THEN 2
    ELSE IF aDeployThrows THEN 1
    ELSE 0

\* C20: the process exits 0 for -h / --help, 2 for a missing or unknown argument, a
\* nonexistent or non-regular binary and a detection failure, 1 for an exception
\* raised during deployment, and 0 after a completed deployment.
C20_ExitCodeTable ==
    aPc = "exited" => aExit = StatedExitCode

-----------------------------------------------------------------------------
(* translations.cpp: deployTranslations.  A catalog's bytes are named after *)
(* its file; what lconvert writes for a language is larger than a catalog,  *)
(* and what it leaves when it fails is smaller.                             *)

\* s.find_first_of(chars): the first position (1-based) of one of chars, 0 for npos
find_first_of(s, chars) ==
    LET hits == {i \in 1..Len(s) : Contains(chars, Char(s, i))}
    IN  IF hits = {} THEN 0 ELSE CHOOSE i \in hits : \A j \in hits : i <= j

\* the lambda parse of detectLanguagesFromEnv
ParseLocale(s) ==
    IF s = "" THEN ""
    ELSE LET end == find_first_of(s, "_.@ ")
             base == IF end = 0 THEN s ELSE SubSeq(s, 1, end - 1)
         IN  ToLower(base)

detectLanguagesFromEnv(env) ==
    LET pick == IF env.LC_ALL # "" THEN env.LC_ALL ELSE env.LANG
        one == ParseLocale(pick)
        langs == IF one # "" THEN <<one>> ELSE <<>>
    IN  IF \E i \in 1..Len(langs) : langs[i] = "en" THEN langs ELSE Append(langs, "en")

computeLanguages(languages, env) ==
    IF languages # <<>> THEN languages ELSE detectLanguagesFromEnv(env)

translationsOutputDir(type) ==
    IF type = "MACHO" THEN "Contents/Resources/translations"
    ELSE IF type = "ELF" THEN "usr/translations"
    ELSE "translations"

\* listModuleCatalogsForLang: the regular files of qtTransDir named <something>_<lang>.qm
listModuleCatalogsForLang(qtTrans, lang) ==
    LET suffix == "_" \o lang \o ".qm"
    IN  IF ~qtTrans.isDirectory THEN {}
        ELSE {name \in qtTrans.files :
                 /\ Len(name) > Len(suffix)
                 /\ SubSeq(name, Len(name) - Len(suffix) + 1, Len(name)) = suffix}

\* what a run of lconvert can do: exit 0 having written the output, exit with an error
\* having written nothing (or not run at all), exit with an error after it began to write
LconvertOutcomes == {"written", "nothing", "cut short"}

\* runLconvert judging by the existence of the output alone
runLconvert_byOutputAlone(fs, inputs, outputQm, lang, outcome, now) ==
    LET ran == IF outcome = "written" THEN [fs EXCEPT ![outputQm] = FileNode("lconvert of " \o lang, now)]
               ELSE IF outcome = "cut short" THEN [fs EXCEPT ![outputQm] = FileNode("lconvert, cut short", now)]
               ELSE fs
    IN  IF inputs = {} THEN [fs |-> fs, ok |-> FALSE]
        ELSE [fs |-> ran, ok |-> Status(ran, outputQm).kind # "none"]

\* runLconvert(inputs, outputQm): the tree afterwards and the returned flag
runLconvert(fs, inputs, outputQm, lang, outcome, now) ==
    LET code == IF outcome = "written" THEN 0 ELSE 1
        ran == IF outcome = "written" THEN [fs EXCEPT ![outputQm] = FileNode("lconvert of " \o lang, now)]
               ELSE IF outcome = "cut short" THEN [fs EXCEPT ![outputQm] = FileNode("lconvert, cut short", now)]
               ELSE fs
    IN  IF inputs = {} THEN [fs |-> fs, ok |-> FALSE]
        ELSE [fs |-> ran, ok |-> code = 0 /\ Status(ran, outputQm).kind # "none"]

\* a catalog of the Qt translations directory, as copy source
CatalogFile(name) == [bytes |-> name, mtime |-> 1, at |-> ""]

\* the loop `for (const auto& c : catalogs) copyIfExists(c, outDir)`
RECURSIVE CopyCatalogs(_, _, _, _)
CopyCatalogs(fs, catalogs, outDir, now) ==
    IF catalogs = {} THEN fs
    ELSE LET c == CHOOSE x \in catalogs : TRUE
         IN  CopyCatalogs(copyFileOverwrite(fs, CatalogFile(c), PathJoin(outDir, c), now).fs,
                          catalogs \ {c}, outDir, now)

\* the loop of deployTranslations over langs from the i-th on; outcomes[i] is what
\* lconvert does when it is run for the i-th language
RECURSIVE TranslationsLoop(_, _, _, _, _, _, _, _)
TranslationsLoop(fs, tried, langs, i, qtTrans, outDir, outcomes, now) ==
    IF i > Len(langs) THEN [fs |-> fs, tried |-> tried]
    ELSE LET lang == langs[i]
             catalogs == listModuleCatalogsForLang(qtTrans, lang)
             aggregated == PathJoin(outDir, "qt_" \o lang \o ".qm")
         IN  IF catalogs = {} THEN TranslationsLoop(fs, tried, langs, i + 1, qtTrans, outDir, outcomes, now)
             ELSE Only({TranslationsLoop(IF r.ok THEN r.fs ELSE CopyCatalogs(r.fs, catalogs, outDir, now),
                                         Append(tried, [lang |-> lang, lconvert |-> outcomes[i]]),
                                         langs, i + 1, qtTrans, outDir, outcomes, now) :
                           r \in {runLconvert(fs, catalogs, aggregated, lang, outcomes[i], now)}})

\* deployTranslations(ctx, plan): the tree afterwards and the languages tried
translate(fs, type, languages, env, qtTrans, outcomes, now) ==
    IF ~qtTrans.known THEN [fs |-> fs, tried |-> <<>>]
    ELSE TranslationsLoop(fs, <<>>, computeLanguages(languages, env), 1, qtTrans,
                          translationsOutputDir(type), outcomes, now)

QtCatalogNames ==
    {"qtbase_fr.qm", "qtdeclarative_fr.qm", "qtbase_de.qm", "qtbase_en.qm", "qt_fr.qm", "qtbase_fr.ts"}

LanguageLists == {<<>>, <<"fr", "de">>, <<"de">>, <<"it", "fr">>, <<"fr", "en", "fr">>}

Locales == {"", "fr_FR.UTF-8", "de", "C", "FR@euro", "en_US.UTF-8", "_x"}

\* the paths deployTranslations can write
TranslationPaths ==
    {PathJoin(translationsOutputDir(lType), n) :
        n \in QtCatalogNames \cup {"qt_" \o l \o ".qm" : l \in {"fr", "de", "en", "it", "c"}}}

InitTranslations ==
    /\ IdleExcept("trans")
    /\ \/ lType = "ELF" /\ lLanguages \in LanguageLists /\ lEnv = [LC_ALL |-> "", LANG |-> "de_DE"]
       \/ lType = "PE" /\ lLanguages = <<>> /\ lEnv \in [LC_ALL : {"", "de_AT"}, LANG : Locales]
       \/ lType = "MACHO" /\ lLanguages = <<"fr", "de">> /\ lEnv = [LC_ALL |-> "C", LANG |-> ""]
    /\ lQtTranslations \in
          {[known |-> TRUE, isDirectory |-> TRUE, files |-> f] : f \in SubsetsUpTo(QtCatalogNames, 3)}
              \cup {[known |-> k, isDirectory |-> FALSE, files |-> {}] : k \in BOOLEAN}
    /\ lOut = [p \in TranslationPaths |-> NoNode]
    /\ lNow = 2 /\ lPc = "ready" /\ lRun = 1 /\ lTried = <<>>

\* deployTranslations(ctx, plan)
Translate ==
    /\ lPc = "ready"
    /\ \E outcomes \in [1..Len(computeLanguages(lLanguages, lEnv)) -> LconvertOutcomes] :
          \E r \in {translate(lOut, lType, lLanguages, lEnv, lQtTranslations, outcomes, lNow)} :
              lOut' = r.fs /\ lTried' = r.tried
    /\ lPc' = "done" /\ lNow' = lNow + 1
    /\ UNCHANGED <<lType, lLanguages, lEnv, lQtTranslations, lRun>>
    /\ UnchangedExcept("trans")

\* the same deployment started again on the tree the first run left
TranslateAgain ==
    /\ lPc = "done" /\ lRun = 1
    /\ lPc' = "ready" /\ lRun' = 2 /\ lTried' = <<>> /\ lNow' = lNow + 1
    /\ UNCHANGED <<lType, lLanguages, lEnv, lQtTranslations, lOut>>
    /\ UnchangedExcept("trans")

NextTranslations == Translate \/ TranslateAgain

SpecTranslations == InitTranslations /\ [][NextTranslations]_vars

\* the language set as documented: the configured list, else the language of LC_ALL,
\* or of LANG when LC_ALL is empty, and en
StatedLanguages ==
    IF lLanguages # <<>> THEN {lLanguages[i] : i \in 1..Len(lLanguages)}
    ELSE LET locale == IF lEnv.LC_ALL # "" THEN lEnv.LC_ALL ELSE lEnv.LANG
             cut == {n \in 0..Len(locale) :
                        /\ \A i \in 1..n : Char(locale, i) \notin {"_", ".", "@", " "}
                        /\ n < Len(locale) => Char(locale, n + 1) \in {"_", ".", "@", " "}}
         IN  ({ToLower(SubSeq(locale, 1, n)) : n \in cut} \ {""}) \cup {"en"}

\* the catalogs *_<lang>.qm of the Qt translations directory
CatalogsOf(lang) ==
    IF ~lQtTranslations.known THEN {}
    ELSE {n \in lQtTranslations.files :
             \E k \in 1..Len(n) : SubSeq(n, k + 1, Len(n)) = "_" \o lang \o ".qm"}

TranslationsDir == translationsOutputDir(lType)

C21_MissingToolsEndRunUntouched ==
    aType \in {"PE", "ELF", "MACHO"} /\ computeMissingTools(aType, aHost) # <<>> =>
        /\ ~aOutTouched
        /\ aPc = "exited" => aExit = 2

-----------------------------------------------------------------------------
(* fs_ops.cpp copyFileOverwrite on a tree that records its directories *)

DirNode == [NoNode EXCEPT !.kind = "dir"]

\* fs::create_directories(p): each missing directory of the chain is made, from the top
\* down, until one of them turns out to be something else
create_directories(fs, p) ==
    LET chain == (Ancestors(p) \cup {p}) \cap DOMAIN fs
        open(d) == \A a \in (Ancestors(d) \cap DOMAIN fs) : Status(fs, a).kind \in {"dir", "none"}
    IN  [d \in DOMAIN fs |-> IF d \in chain /\ fs[d].kind = "none" /\ open(d) THEN DirNode ELSE fs[d]]

\* copyFileOverwrite(from, to) with line 52 and with the failures of fs::copy_file that
\* a tree with directories has: no parent directory, a directory as destination
CopyWithParents(fs, from, to, now) ==
    LET made == create_directories(fs, parent_path(to))
    IN  IF Status(made, parent_path(to)).kind # "dir" THEN [fs |-> made, ok |-> FALSE]
        ELSE IF Status(made, to).kind = "dir" THEN [fs |-> made, ok |-> FALSE]
        ELSE copyFileOverwrite(made, from, to, now)

CopyPaths == {"out", "out/lib", "out/lib/libA.so", "out/lib/link.so", "out/new", "out/new/libA.so"}

CopyTrees ==
    {[p \in CopyPaths |->
        CASE p = "out" -> DirNode
          [] p = "out/lib" -> DirNode
          [] p = "out/lib/libA.so" -> a
          [] p = "out/lib/link.so" -> l
          [] p = "out/new" -> n
          [] OTHER -> IF n.kind = "dir" THEN b ELSE NoNode] :
        a \in {NoNode, DirNode} \cup {FileNode(bytes, t) : bytes \in {"A", "F", "B"}, t \in 0..2},
        l \in {NoNode, LinkNode("libA.so", 1), LinkNode("link.so", 1)},
        n \in {NoNode, DirNode, FileNode("C", 1)},
        b \in {NoNode, FileNode("A", 1)}}

InitCopy ==
    /\ IdleExcept("copy")
    /\ kFs \in CopyTrees /\ kBefore = kFs
    /\ kFrom \in {SourceFile([bytes |-> b, mtime |-> 1]) : b \in {"A", "B"}}
                  \cup {StagedFile(kFs, p) : p \in {q \in {"out/lib/libA.so"} : kFs[q].kind = "file"}}
    /\ kTo \in {"out/lib/libA.so", "out/lib/link.so", "out/new/libA.so"}
    /\ kNow = 3 /\ kDone = FALSE /\ kReturned = FALSE

\* copyFileOverwrite(from, to)
CopyFileOverwrite ==
    /\ ~kDone
    /\ \E r \in {CopyWithParents(kFs, kFrom, kTo, kNow)} : kFs' = r.fs /\ kReturned' = r.ok
    /\ kDone' = TRUE
    /\ UNCHANGED <<kBefore, kFrom, kTo, kNow>>
    /\ UnchangedExcept("copy")

NextCopy == CopyFileOverwrite

SpecCopy == InitCopy /\ [][NextCopy]_vars

\* the destination was there as a regular file of the source's size, not older than it
UpToDate ==
    /\ Status(kBefore, kTo).kind = "file"
    /\ SizeOf(Status(kBefore, kTo).bytes) = SizeOf(kFrom.bytes)
    /\ Status(kBefore, kTo).mtime >= kFrom.mtime

\* fs::copy_file cannot succeed: the destination leads nowhere, is the source itself or
\* a directory, or a parent of it is no directory and cannot be made one
CopyMustFail ==
    \/ Deref(kBefore, kTo, Cardinality(CopyPaths)) = ""
    \/ kFrom.at # "" /\ Deref(kBefore, kTo, Cardinality(CopyPaths)) = kFrom.at
    \/ Status(kBefore, kTo).kind = "dir"
    \/ \E a \in Ancestors(kTo) : Status(kBefore, a).kind \notin {"dir", "none"}

\* C23: copyFileOverwrite leaves the tree as it is (destination content and modification
\* time unchanged) and returns true exactly when the destination was a regular file of
\* the source's size and not older than the source; in every other case it makes the
\* parent directories and overwrites the destination, whose content is then the
\* source's, and it returns false only when the copy failed.
C23_SkipsExactlyWhenUpToDate ==
    kDone =>
        IF UpToDate
        THEN kFs = kBefore /\ kReturned
        ELSE /\ kReturned = ~CopyMustFail
             /\ kReturned =>
                   /\ BytesAt(kFs, kTo) = kFrom.bytes
                   /\ Status(kFs, kTo).mtime = kNow
                   /\ \A a \in Ancestors(kTo) : Status(kFs, a).kind = "dir"

\* a destination of the source's size and age, with other content, has been left alone
C23_Witness ==
    /\ kDone /\ kReturned /\ UpToDate
    /\ BytesAt(kFs, kTo) = "F" /\ kFrom.bytes = "A" /\ Status(kFs, kTo).mtime = kFrom.mtime

-----------------------------------------------------------------------------
(* stage.cpp copyPluginsPE.  A copied plugin's bytes are named after the    *)
(* file it was copied from.                                                 *)

\* the characters of the paths, in the order of their codes
CodeOrder == "-./0123456789ABCDEFGHIJKLMNOPQRSTUVWXYZ_abcdefghijklmnopqrstuvwxyz"

CharCode(c) == CHOOSE i \in 1..Len(CodeOrder) : Char(CodeOrder, i) = c

\* std::string operator<
RECURSIVE StringLess(_, _)
StringLess(a, b) ==
    IF b = "" THEN FALSE
    ELSE IF a = "" THEN TRUE
    ELSE IF Char(a, 1) # Char(b, 1) THEN CharCode(Char(a, 1)) < CharCode(Char(b, 1))
    ELSE StringLess(SubSeq(a, 2, Len(a)), SubSeq(b, 2, Len(b)))

\* fs::path operator< on absolute paths: element by element
RECURSIVE ElementsLess(_, _)
ElementsLess(a, b) ==
    IF b = <<>> THEN FALSE
    ELSE IF a = <<>> THEN TRUE
    ELSE IF Head(a) # Head(b) THEN StringLess(Head(a), Head(b))
    ELSE ElementsLess(Tail(a), Tail(b))

PathLess(a, b) == ElementsLess(Components(a), Components(b))

\* std::sort followed by erase(unique): the different paths of roots in ascending order
RECURSIVE Ascending(_)
Ascending(S) ==
    IF S = {} THEN <<>>
    ELSE LET least == CHOOSE x \in S : \A y \in S \ {x} : PathLess(x, y)
         IN  <<least>> \o Ascending(S \ {least})

SortUnique(roots) == Ascending({roots[i] : i \in DOMAIN roots})

\* s.rfind(pat, pos): the last position <= pos (0-based) where pat occurs, -1 for npos
rfind(s, pat, pos) ==
    LET hits == {i \in 0..pos : i + Len(pat) <= Len(s) /\ SubSeq(s, i + 1, i + Len(pat)) = pat}
    IN  IF hits = {} THEN -1 ELSE CHOOSE i \in hits : \A j \in hits : i >= j

\* <base>/plugins and <base>/lib/qt-6/plugins, those that exist
RootsBelow(base, files) ==
    LET root1 == PathJoin(base, "plugins")
        root2 == PathJoin(PathJoin(PathJoin(base, "lib"), "qt-6"), "plugins")
    IN  (IF Exists(root1, files) THEN <<root1>> ELSE <<>>)
            \o (IF Exists(root2, files) THEN <<root2>> ELSE <<>>)

\* lines 31-42: the roots below the parents of the PATH entries
RECURSIVE RootsFromPath(_, _)
RootsFromPath(entries, files) ==
    IF entries = <<>> THEN <<>>
    ELSE LET p == Head(entries)
         IN  (IF Len(p) > 4 /\ rfind(p, "/bin", Len(p) - 4) # -1
              THEN RootsBelow(parent_path(p), files) ELSE <<>>)
                 \o RootsFromPath(Tail(entries), files)

\* lines 44-57: the roots next to the directory of a resolved Qt6Core.dll
RECURSIVE RootsFromQtCore(_, _)
RootsFromQtCore(libs, files) ==
    IF libs = <<>> THEN <<>>
    ELSE (IF ToLower(filename(Head(libs))) = "qt6core.dll"
          THEN RootsBelow(parent_path(parent_path(Head(libs))), files) ELSE <<>>)
             \o RootsFromQtCore(Tail(libs), files)

\* lines 25-57: pluginRoots before the sort
CollectPluginRoots(qtInstallPlugins, env, libs, files) ==
    (IF qtInstallPlugins # "" THEN <<qtInstallPlugins>> ELSE <<>>)
        \o splitPaths(env.MINGW_QT_PLUGINS, pathListSep)
        \o RootsFromPath(splitPaths(env.PATH, pathListSep), files)
        \o RootsFromQtCore(libs, files)

ImageFormats == <<"qjpeg.dll", "qico.dll", "qgif.dll", "qpng.dll">>

\* a plugin file of the build machine, as copy source
PluginFile(p) == [bytes |-> p, mtime |-> 1, at |-> ""]

\* lines 66-69: the image-format plugins of the root src
RECURSIVE CopyImageFormats(_, _, _, _, _)
CopyImageFormats(fs, src, i, files, now) ==
    IF i > Len(ImageFormats) THEN fs
    ELSE LET p == PathJoin(PathJoin(src, "imageformats"), ImageFormats[i])
         IN  CopyImageFormats(IF Exists(p, files)
                              THEN copyFileOverwrite(fs, PluginFile(p), "plugins/imageformats/" \o filename(p), now).fs
                              ELSE fs,
                              src, i + 1, files, now)

\* lines 62-71: the loop over the roots from the i-th on
RECURSIVE PluginRootLoop(_, _, _, _, _)
PluginRootLoop(fs, roots, i, files, now) ==
    IF i > Len(roots) THEN fs
    ELSE LET platformDll == PathJoin(PathJoin(roots[i], "platforms"), "qwindows.dll")
         IN  IF ~Exists(platformDll, files) THEN PluginRootLoop(fs, roots, i + 1, files, now)
             ELSE CopyImageFormats(
                      copyFileOverwrite(fs, PluginFile(platformDll),
                                        "plugins/platforms/" \o filename(platformDll), now).fs,
                      roots[i], 1, files, now)

copyPluginsPE(fs, qtInstallPlugins, env, libs, files, now) ==
    PluginRootLoop(fs, SortUnique(CollectPluginRoots(qtInstallPlugins, env, libs, files)), 1, files, now)

PluginOutPaths ==
    {"plugins/platforms/qwindows.dll"}
        \cup {"plugins/imageformats/" \o ImageFormats[i] : i \in DOMAIN ImageFormats}

\* the plugin roots a build machine may have
QtInstallRoot == "/opt/qt/plugins"
MingwRoot == "/mingw64/share/qt6/plugins"
PathRoot == "/mingw64/plugins"
PathQt6Root == "/usr/lib/qt-6/plugins"
QtCoreRoot == "/cross/qt/plugins"
AllPluginRoots == {QtInstallRoot, MingwRoot, PathRoot, PathQt6Root, QtCoreRoot}

MaxPluginRoots == 3

InitPlugins ==
    /\ IdleExcept("plugins")
    /\ gQtPlugins \in {"", QtInstallRoot}
    /\ gEnv \in [MINGW_QT_PLUGINS : {"", MingwRoot},
                  PATH : {"/usr/local/sbin", "/mingw64/bin:/usr/bin", "/usr/bin:/opt/qt/bin:/mingw64/bin"}]
    /\ gLibs \in {<<>>, <<"/cross/qt/bin/Qt6Core.dll">>, <<"/cross/qt/bin/libfoo.dll", "/cross/qt/bin/qt6core.DLL">>}
    /\ \E withPlatform \in SubsetsUpTo(AllPluginRoots, MaxPluginRoots), withImages \in SUBSET {QtInstallRoot, PathRoot} :
          gFiles = {"/usr/bin/objdump", "/cross/qt/bin/Qt6Core.dll"}
                       \cup {PathJoin(r, "platforms/qwindows.dll") : r \in withPlatform}
                       \cup {PathJoin(r, "imageformats/qjpeg.dll") : r \in withImages}
                       \cup {PathJoin(r, "imageformats/qpng.dll") : r \in withImages \cap {PathRoot}}
    /\ gOut = [p \in PluginOutPaths |-> NoNode]
    /\ gPc = "ready"

\* copyPluginsPE(ctx, plan, libs)
CopyPluginsPE ==
    /\ gPc = "ready"
    /\ gOut' = copyPluginsPE(gOut, gQtPlugins, gEnv, gLibs, gFiles, 2)
    /\ gPc' = "done"
    /\ UNCHANGED <<gQtPlugins, gEnv, gLibs, gFiles>>
    /\ UnchangedExcept("plugins")

NextPlugins == CopyPluginsPE

SpecPlugins == InitPlugins /\ [][NextPlugins]_vars

\* the candidate roots in the documented precedence: the Qt install plugins, the
\* MINGW_QT_PLUGINS entries, the roots derived from PATH, those derived from Qt6Core.dll
RootsByPrecedence == CollectPluginRoots(gQtPlugins, gEnv, gLibs, gFiles)

HasPlatformPlugin(root) == PathJoin(root, "platforms/qwindows.dll") \in gFiles

\* C25: copyPluginsPE takes the platform plugin and the image-format plugins from the
\* first root, in the order Qt install plugins, MINGW_QT_PLUGINS entries, roots derived
\* from PATH, roots derived from Qt6Core.dll, whose platforms/ contains qwindows.dll: a
\* later root is used only when no earlier one contains it.
C25_FirstRootByPrecedence ==
    gPc = "done" =>
        \A i \in DOMAIN RootsByPrecedence :
            /\ HasPlatformPlugin(RootsByPrecedence[i])
            /\ \A j \in 1..(i - 1) : ~HasPlatformPlugin(RootsByPrecedence[j])
            => /\ BytesAt(gOut, "plugins/platforms/qwindows.dll")
                     = PathJoin(RootsByPrecedence[i], "platforms/qwindows.dll")
               /\ \A k \in DOMAIN ImageFormats :
                     LET p == PathJoin(PathJoin(RootsByPrecedence[i], "imageformats"), ImageFormats[k])
                     IN  BytesAt(gOut, "plugins/imageformats/" \o ImageFormats[k])
                             = IF p \in gFiles THEN p ELSE Absent

-----------------------------------------------------------------------------
(* qml.cpp copyQmlModules.  The source tree has no linked directories, so   *)
(* weakly_canonical of <directory>/<link target> is its normal form.        *)

qmlDestBase(type) ==
    IF type = "MACHO" THEN "Contents/Resources/qml"
    ELSE IF type = "ELF" THEN "usr/qml" ELSE "qml"

QuickDir == "Contents/PlugIns/quick"

\* a file of a module, as copy source
ModuleFile(src, p) == [bytes |-> src[p].bytes, mtime |-> src[p].mtime, at |-> ""]

\* lines 146-158: the file a directory entry leads to
LinkedTarget(src, p) ==
    IF src[p].kind = "link" THEN LexicallyNormal(PathJoin(parent_path(p), src[p].target)) ELSE p

\* lines 159-177: the dylib goes to PlugIns/quick, and a link to it, or a copy of it
\* where links cannot be made, takes its place in the module
StageQmlDylib(fs, src, target, out, symlinks, now) ==
    LET moved == PathJoin(QuickDir, filename(target))
        c == copyFileOverwrite(fs, ModuleFile(src, target), moved, now)
        removed == [c.fs EXCEPT ![out] = NoNode]
    IN  IF ~c.ok THEN [fs |-> c.fs, ok |-> FALSE]
        ELSE IF symlinks
             THEN [fs |-> [removed EXCEPT ![out] = LinkNode(LexicallyRelative(moved, parent_path(out)), now)],
                   ok |-> TRUE]
             ELSE [fs |-> copyFileOverwrite(removed, StagedFile(removed, moved), out, now).fs, ok |-> TRUE]

\* lines 138-187: the entries of one module in the order the iterator gives them;
\* an exception ends the module
RECURSIVE QmlEntryLoop(_, _, _, _, _, _, _, _)
QmlEntryLoop(fs, type, src, m, entries, i, symlinks, now) ==
    IF i > Len(entries) THEN fs
    ELSE LET p == entries[i]
             out == PathJoin(PathJoin(qmlDestBase(type), m.relativePath), LexicallyRelative(p, m.sourcePath))
             target == LinkedTarget(src, p)
         IN  IF type = "MACHO" /\ target \in DOMAIN src /\ extension(target) = ".dylib"
             THEN Only({IF r.ok THEN QmlEntryLoop(r.fs, type, src, m, entries, i + 1, symlinks, now) ELSE r.fs :
                           r \in {StageQmlDylib(fs, src, target, out, symlinks, now)}})
             ELSE IF src[p].kind = "link" THEN QmlEntryLoop(fs, type, src, m, entries, i + 1, symlinks, now)
             ELSE Only({IF r.ok THEN QmlEntryLoop(r.fs, type, src, m, entries, i + 1, symlinks, now) ELSE r.fs :
                           r \in {copyFileOverwrite(fs, ModuleFile(src, p), out, now)}})

\* the entries recursive_directory_iterator(m.sourcePath) gives that are no directories
EntriesOf(src, m) == {p \in DOMAIN src : StartsWith(p, m.sourcePath \o "/")}

\* the paths of a set in ascending or in descending order
RECURSIVE InOrder(_, _)
InOrder(S, descending) ==
    IF S = {} THEN <<>>
    ELSE LET least == CHOOSE x \in S : \A y \in S \ {x} : PathLess(x, y)
         IN  IF descending THEN InOrder(S \ {least}, descending) \o <<least>>
             ELSE <<least>> \o InOrder(S \ {least}, descending)

\* lines 132-191: the loop over the modules from the k-th on
RECURSIVE copyQmlModulesFrom(_, _, _, _, _, _, _, _)
copyQmlModulesFrom(fs, type, src, modules, k, descending, symlinks, now) ==
    IF k > Len(modules) THEN fs
    ELSE copyQmlModulesFrom(
             QmlEntryLoop(fs, type, src, modules[k], InOrder(EntriesOf(src, modules[k]), descending), 1,
                          symlinks, now),
             type, src, modules, k + 1, descending, symlinks, now)

copyQmlModules(fs, type, src, modules, descending, symlinks, now) ==
    copyQmlModulesFrom(fs, type, src, modules, 1, descending, symlinks, now)

\* the modules an application may import: Qt's, and two of its own
QmlModuleChoices ==
    {[sourcePath |-> "/opt/qt/qml/QtQuick", relativePath |-> "QtQuick"],
     [sourcePath |-> "/opt/qt/qml/QtQuick/Controls", relativePath |-> "QtQuick/Controls"],
     [sourcePath |-> "/opt/qt/qml/QtQml", relativePath |-> "QtQml"],
     [sourcePath |-> "/work/qml/Mine", relativePath |-> "Mine"]}

\* the files of the modules; the application's own plugin is named like Qt's or not
QmlSourceTrees ==
    {("/opt/qt/qml/QtQuick/qmldir" :> FileNode("qmldir of QtQuick", 1))
        @@ ("/opt/qt/qml/QtQuick/libquickplugin.dylib" :> FileNode("C", 1))
        @@ ("/opt/qt/qml/QtQuick/Controls/libcontrolsplugin.dylib" :> FileNode("B", 1))
        @@ ("/opt/qt/qml/QtQml/libqmlplugin.1.dylib" :> FileNode("D", 1))
        @@ ("/opt/qt/qml/QtQml/libqmlplugin.dylib" :> LinkNode("libqmlplugin.1.dylib", 1))
        @@ ("/opt/qt/qml/QtQml/plugins.qmltypes" :> LinkNode("../QtQuick/qmldir", 1))
        @@ (("/work/qml/Mine/" \o name) :> FileNode(bytes, 1))
        @@ ("/work/qml/Mine/Main.qml" :> FileNode("Main.qml", 1)) :
        name \in {"libmineplugin.dylib", "libquickplugin.dylib"}, bytes \in {"A", "app"}}

MaxModules == 3

\* where a file of a module is staged
StagedAt(type, module, p) ==
    PathJoin(PathJoin(qmlDestBase(type), module.relativePath), LexicallyRelative(p, module.sourcePath))

\* the paths copyQmlModules can write for these modules
QmlOutPaths(type, src, modules) ==
    UNION {{PathJoin(QuickDir, filename(LinkedTarget(src, p))), StagedAt(type, modules[k], p)} :
           <<k, p>> \in {x \in (DOMAIN modules) \X (DOMAIN src) : x[2] \in EntriesOf(src, modules[x[1]])}}

\* lines 111-112 of runQmlImportScanner: the modules sorted by sourcePath
SortedModules(chosen) ==
    LET order == InOrder({c.sourcePath : c \in chosen}, FALSE)
    IN  [i \in DOMAIN order |-> CHOOSE c \in chosen : c.sourcePath = order[i]]

InitQml ==
    /\ IdleExcept("qml")
    /\ qType \in BinaryTypes
    /\ qSrc \in QmlSourceTrees
    /\ qModules \in {SortedModules(chosen) : chosen \in SubsetsUpTo(QmlModuleChoices, MaxModules)}
    /\ qSymlinks \in BOOLEAN
    /\ qOut = [p \in QmlOutPaths(qType, qSrc, qModules) |-> NoNode]
    /\ qPc = "ready"

\* copyQmlModules(ctx, plan); the directory iterator gives the entries in some order
CopyQmlModulesOf ==
    /\ qPc = "ready"
    /\ \E descending \in BOOLEAN :
          qOut' = copyQmlModules(qOut, qType, qSrc, qModules, descending, qSymlinks, 2)
    /\ qPc' = "done"
    /\ UNCHANGED <<qType, qSrc, qModules, qSymlinks>>
    /\ UnchangedExcept("qml")

NextQml == CopyQmlModulesOf

SpecQml == InitQml /\ [][NextQml]_vars

\* the entries of the copied modules that are a dylib or lead to one: <<module, entry>>
ModuleDylibs ==
    {x \in (DOMAIN qModules) \X (DOMAIN qSrc) :
        /\ x[2] \in EntriesOf(qSrc, qModules[x[1]])
        /\ LinkedTarget(qSrc, x[2]) \in DOMAIN qSrc
        /\ extension(LinkedTarget(qSrc, x[2])) = ".dylib"}

\* C26: on Mach-O, after copyQmlModules every dylib of a copied module is a regular
\* file at Contents/PlugIns/quick/<basename> and nowhere else in the output, and its
\* place under Contents/Resources/qml is a relative link to that file; two module
\* dylibs never share a file of PlugIns/quick.
C26_DylibOnceInQuickDir ==
    qPc = "done" /\ qType = "MACHO" =>
        \A x \in ModuleDylibs :
            LET target == LinkedTarget(qSrc, x[2])
                moved == PathJoin(QuickDir, filename(target))
                out == StagedAt(qType, qModules[x[1]], x[2])
            IN  /\ qOut[moved].kind = "file" /\ qOut[moved].bytes = qSrc[target].bytes
                /\ \A p \in DOMAIN qOut \ {moved} :
                      ~(qOut[p].kind = "file" /\ qOut[p].bytes = qSrc[target].bytes)
                /\ qOut[out].kind = "link"
                /\ ~is_absolute(qOut[out].target)
                /\ LexicallyNormal(PathJoin(parent_path(out), qOut[out].target)) = moved

====
